---- MODULE Spec2Model ----
(***************************************************************************)
(* EdgeToFogAggregator (frontend/modules/edge_fog_aggregator.py) and the   *)
(* slots that new_greenhouse.py connects to its signals.                    *)
(*                                                                         *)
(* Representation choices, used throughout:                                *)
(*  - a Python str is the sequence of its '_'-separated segments, so that   *)
(*    f"{a}_{b}" is a \o b and str.split('_', 1) is <<head, tail>>;          *)
(*  - a Python dict is the sequence of its <<key, value>> items in          *)
(*    insertion order (the order in which dict iteration visits them);      *)
(*  - a float measurement is a fixed-point integer in tenths (35.0 is 350,  *)
(*    5.5 is 55); a quality is an integer in sixteenths (1.0 is 16);        *)
(*  - a computed float is a fraction [num, den]; the float operations of    *)
(*    aggregate_data and of the detectors round their exact result to       *)
(*    Precision significant bits, ties to even, as binary floating point    *)
(*    does (CPython: 53 bits); the sample values are exact in that format;  *)
(*    std_dev, a square root, is kept as its square (the sample variance);  *)
(*  - datetime values are integer seconds; datetime.now() is the variable   *)
(*    now;                                                                  *)
(*  - None is <<>> and a present optional value x is <<x>>.                 *)
(***************************************************************************)
EXTENDS Integers, Sequences, FiniteSets, TLC

(* ------------------------------ bounds -------------------------------- *)

\* Caller threads; thread 1 is the Qt GUI thread the slots live in.
NumThreads == 2

\* Public operations started over a whole run.
MaxOps == 3

\* Times the clock advances over a whole run.
MaxAdvances == 1

\* The longest list of readings a buffer drawn for a tick holds.
MaxReadings == 3

\* The earlier ticks in the history a tick starts from
MaxHistory == 4

\* The longest list of readings, and of aggregates, drawn for a cleanup
MaxKept == 2

(* --------------------------- SensorType -------------------------------- *)

TEMPERATURE == <<"temperature">>

HUMIDITY == <<"humidity">>

SOIL_MOISTURE == <<"soil", "moisture">>

LIGHT_INTENSITY == <<"light", "intensity">>

CO2_LEVEL == <<"co2", "level">>

SOIL_PH == <<"soil", "ph">>

SensorType == {TEMPERATURE, HUMIDITY, SOIL_MOISTURE, LIGHT_INTENSITY, CO2_LEVEL, SOIL_PH}

\* SensorType(s): the member whose value is s; ValueError when there is none.
IsSensorTypeValue(s) == s \in SensorType

NONE == <<>>

Some(x) == <<x>>

(* ------------------------------ dict ----------------------------------- *)

DictKeys(d) == [i \in 1..Len(d) |-> d[i][1]]

Has(d, k) == \E i \in 1..Len(d) : d[i][1] = k

Get(d, k) == d[CHOOSE i \in 1..Len(d) : d[i][1] = k][2]

\* d[k] = v: an existing key keeps its position, a new key goes last.
Put(d, k, v) ==
    IF Has(d, k)
    THEN [i \in 1..Len(d) |-> IF d[i][1] = k THEN <<k, v>> ELSE d[i]]
    ELSE Append(d, <<k, v>>)

\* del d[k]
Del(d, k) == SelectSeq(d, LAMBDA e : e[1] # k)

(* --------------------------- __init__ tables ---------------------------- *)

\* self.aggregation_windows, in insertion order, seconds.
aggregation_windows == << <<"1min", 60>>, <<"5min", 300>>, <<"15min", 900>>, <<"1h", 3600>> >>

\* self.expected_ranges, in tenths.
expected_ranges ==
    << <<TEMPERATURE, <<150, 350>> >>,
       <<HUMIDITY, <<300, 800>> >>,
       <<SOIL_MOISTURE, <<200, 800>> >>,
       <<LIGHT_INTENSITY, <<0, 10000>> >>,
       <<CO2_LEVEL, <<3000, 15000>> >>,
       <<SOIL_PH, <<55, 75>> >> >>

\* The 10 of the severity test of check_immediate_anomalies, in tenths.
CriticalDistance == 100

\* anomaly_thresholds['variance_threshold'] = 0.3, as the fraction 3/10.
variance_threshold == [num |-> 3, den |-> 10]

\* anomaly_thresholds['rate_of_change'] = 5.0 per minute, in tenths.
rate_of_change == 50

\* A faulty variant of RawRetention, kept to show what C37 rules out: the raw
\* readings are kept no longer than the 15min window.
RawRetentionOfAWindow == Get(aggregation_windows, "15min")

\* Retention of cleanup_old_data: raw readings, aggregates (seconds), anomalies.
RawRetention == 7200

AggRetention == 86400

MaxAnomalies == 100

(* ------------------------- float arithmetic ---------------------------- *)

RECURSIVE GCD(_, _)
GCD(a, b) == IF b = 0 THEN a ELSE GCD(b, a % b)

Abs(x) == IF x < 0 THEN -x ELSE x

\* The float n / d, d # 0, in lowest terms with a positive denominator.
Frac(n, d) ==
    LET g == GCD(Abs(n), Abs(d))
        s == IF d < 0 THEN -1 ELSE 1
    IN  [num |-> (s * n) \div g, den |-> (s * d) \div g]

FracOfInt(n) == [num |-> n, den |-> 1]

FracAdd(a, b) == Frac(a.num * b.den + b.num * a.den, a.den * b.den)

FracSub(a, b) == Frac(a.num * b.den - b.num * a.den, a.den * b.den)

FracMul(a, b) == Frac(a.num * b.num, a.den * b.den)

\* a / b, b # 0
FracDiv(a, b) == Frac(a.num * b.den, a.den * b.num)

FracLess(a, b) == a.num * b.den < b.num * a.den

FracAbs(a) == [num |-> Abs(a.num), den |-> a.den]

\* The width of a float's significand in the model: a float is m * 2^e with
\* |m| < 2^Precision and any integer e (CPython's float has 53 bits).
Precision == 9

\* a / d > 0 rounded to Precision significant bits, ties to even, when
\* a / d = (a * up) / (d * down) held at the start with up = down = 1.
RECURSIVE RoundScaled(_, _, _, _)
RoundScaled(a, d, up, down) ==
    IF a < 2^(Precision - 1) * d THEN RoundScaled(2 * a, d, 2 * up, down)
    ELSE IF a >= 2^Precision * d THEN RoundScaled(a, 2 * d, up, 2 * down)
    ELSE LET q == a \div d
             r == a % d
             m == IF 2 * r > d \/ (2 * r = d /\ q % 2 = 1) THEN q + 1 ELSE q
         IN  Frac(m * down, up)

\* m * 2^e with |m| < MaxSignificand is a float.
MaxSignificand == 2^Precision

\* The denominators of the floats that are not integers, in lowest terms.
PowersOfTwo == {2^i : i \in 0..30}

\* The float nearest to the fraction x: the result of one float operation
\* whose exact result is x.
Fl(x) ==
    IF x.num = 0 THEN FracOfInt(0)
    ELSE IF Abs(x.num) < MaxSignificand /\ x.den \in PowersOfTwo THEN x
    ELSE LET r == RoundScaled(Abs(x.num), x.den, 1, 1)
         IN  IF x.num < 0 THEN [num |-> -r.num, den |-> r.den] ELSE r

\* a + b, a - b, a * b, a / b of floats
FlAdd(a, b) == Fl(FracAdd(a, b))

FlSub(a, b) == Fl(FracSub(a, b))

FlMul(a, b) == Fl(FracMul(a, b))

FlDiv(a, b) == Fl(FracDiv(a, b))

\* sum(s) of a list of floats: added one by one from the left, starting at acc
RECURSIVE FlSumFrom(_, _)
FlSumFrom(acc, s) == IF s = <<>> THEN acc ELSE FlSumFrom(FlAdd(acc, Head(s)), Tail(s))

FlSum(s) == FlSumFrom(FracOfInt(0), s)

\* x ** 0.5 of a fraction x >= 0, kept as the number whose square is x.
Sqrt(x) == [sqrt_of |-> x]

\* s > f for a square root s
SqrtGreater(s, f) == FracLess(f, FracOfInt(0)) \/ FracLess(FracMul(f, f), s.sqrt_of)

SeqRange(s) == {s[i] : i \in 1..Len(s)}

MinOf(s) == CHOOSE x \in SeqRange(s) : \A y \in SeqRange(s) : x <= y

MaxOf(s) == CHOOSE x \in SeqRange(s) : \A y \in SeqRange(s) : x >= y

(* ------------------------------ keys ------------------------------------ *)

\* A faulty variant of BufferKey, kept to show what C29 rules out: the key is
\* built from the part of the sensor type's value before its first '_'.
BufferKeyByFirstPart(sensor_type, location) == <<Head(sensor_type)>> \o location

\* f"{reading.sensor_type.value}_{reading.location}"
BufferKey(sensor_type, location) == sensor_type \o location

\* f"{sensor_type.value}_{location}_{window_name}"
AggKey(sensor_type, location, window_name) == sensor_type \o location \o <<window_name>>

\* key.split('_', 1): a key always holds a '_', so two parts come back.
Split1(key) == << <<Head(key)>>, Tail(key) >>

(* ------------------------- aggregate_data ------------------------------- *)

\* A faulty variant of _calculate_std_dev, kept to show what C14 rules out:
\* the squares are taken of the values, not of their distances to the mean.
StdDevWithoutMean(values) ==
    IF Len(values) <= 1
    THEN Sqrt(FracOfInt(0))
    ELSE LET sq == [i \in 1..Len(values) |-> FlMul(values[i], values[i])]
             variance == FlDiv(FlSum(sq), FracOfInt(Len(values) - 1))
         IN  Sqrt(variance)

\* variance ** 0.5 with the sample variance (divisor n - 1); 0.0 for n <= 1
_calculate_std_dev(values) ==
    IF Len(values) <= 1
    THEN Sqrt(FracOfInt(0))
    ELSE LET mean == FlDiv(FlSum(values), FracOfInt(Len(values)))
             sq == [i \in 1..Len(values) |->
                      FlMul(FlSub(values[i], mean), FlSub(values[i], mean))]
             variance == FlDiv(FlSum(sq), FracOfInt(Len(values) - 1))
         IN  Sqrt(variance)

\* A faulty variant of WeightedAverage, kept to show what C11 rules out: each
\* value is weighted by 1 - quality.
WeightedAverageInverted(values, quality_scores) ==
    LET total_quality == FlSum(quality_scores)
        weighted_values ==
            [i \in 1..Len(values) |->
                FlMul(values[i], FlSub(FracOfInt(16), quality_scores[i]))]
    IN  IF FracLess(FracOfInt(0), total_quality)
        THEN FlDiv(FlSum(weighted_values), total_quality)
        ELSE FlDiv(FlSum(values), FracOfInt(Len(values)))

\* A faulty variant of WeightedAverage, kept to show what C12 rules out: with
\* no quality at all the average is 0.0.
WeightedAverageZeroFallback(values, quality_scores) ==
    LET total_quality == FlSum(quality_scores)
        weighted_values == [i \in 1..Len(values) |-> FlMul(values[i], quality_scores[i])]
    IN  IF FracLess(FracOfInt(0), total_quality)
        THEN FlDiv(FlSum(weighted_values), total_quality)
        ELSE FracOfInt(0)

\* A faulty variant of WeightedAverage, kept to show what C13 rules out: the
\* weighted sum is divided by the number of values, not by the total quality.
WeightedAverageByCount(values, quality_scores) ==
    LET total_quality == FlSum(quality_scores)
        weighted_values == [i \in 1..Len(values) |-> FlMul(values[i], quality_scores[i])]
    IN  IF FracLess(FracOfInt(0), total_quality)
        THEN FlDiv(FlSum(weighted_values), FracOfInt(16 * Len(values)))
        ELSE FlDiv(FlSum(values), FracOfInt(Len(values)))

\* The quality-weighted average of aggregate_data: values and quality_scores
\* are lists of floats of one length >= 1.
WeightedAverage(values, quality_scores) ==
    LET total_quality == FlSum(quality_scores)
        weighted_values == [i \in 1..Len(values) |-> FlMul(values[i], quality_scores[i])]
    IN  IF FracLess(FracOfInt(0), total_quality)
        THEN FlDiv(FlSum(weighted_values), total_quality)
        ELSE FlDiv(FlSum(values), FracOfInt(Len(values)))

\* The result of aggregate_data read at clock value current_time: NONE or
\* Some(AggregatedData).
aggregate_data(buffer, sensor_type, location, window, current_time) ==
    LET key == BufferKey(sensor_type, location) IN
    IF ~Has(buffer, key) THEN NONE
    ELSE
    LET readings == Get(buffer, key)
        window_seconds == Get(aggregation_windows, window)
        recent_readings ==
            SelectSeq(readings, LAMBDA r : current_time - r.timestamp <= window_seconds)
    IN
    IF recent_readings = <<>> THEN NONE
    ELSE
    LET values == [i \in 1..Len(recent_readings) |-> FracOfInt(recent_readings[i].value)]
        quality_scores ==
            [i \in 1..Len(recent_readings) |-> FracOfInt(recent_readings[i].quality)]
        average == WeightedAverage(values, quality_scores)
    IN  Some([timeframe |-> window,
              sensor_type |-> sensor_type,
              average |-> average,
              min |-> MinOf([i \in 1..Len(values) |-> values[i].num]),
              max |-> MaxOf([i \in 1..Len(values) |-> values[i].num]),
              count |-> Len(values),
              std_dev |-> _calculate_std_dev(values),
              timestamp |-> current_time,
              quality_score |-> FlDiv(FlSum(quality_scores), FracOfInt(Len(quality_scores))),
              location |-> location])

(* --------------------- detect_advanced_anomalies ------------------------ *)

\* A faulty variant of HighVariance, kept to show what C17 rules out: the
\* threshold is taken as a value (0.3), not as a share of the average.
HighVarianceAbsolute(aggregated) ==
    SqrtGreater(aggregated.std_dev, FlMul(FracOfInt(10), Fl(variance_threshold)))

\* The 'high_variance' test of detect_advanced_anomalies.
HighVariance(aggregated) ==
    SqrtGreater(aggregated.std_dev, FlMul(aggregated.average, Fl(variance_threshold)))

\* A faulty variant of detect_rate_of_change_anomaly, kept to show what C16
\* rules out: the aggregate is compared with the last of the list, itself.
RateAgainstCurrent(history, current_agg) ==
    LET key == AggKey(current_agg.sensor_type, current_agg.location, current_agg.timeframe) IN
    IF Has(history, key) /\ Len(Get(history, key)) >= 2
    THEN LET list == Get(history, key)
             previous_data == list[Len(list)]
             time_diff == Fl(Frac(current_agg.timestamp - previous_data.timestamp, 60))
         IN  IF FracLess(FracOfInt(0), time_diff)
                /\ FracLess(FracOfInt(rate_of_change),
                            FlDiv(FracAbs(FlSub(current_agg.average, previous_data.average)),
                                  time_diff))
             THEN Some([type |-> "rapid_change", severity |-> "warning",
                        message |-> <<"Rapid change in", current_agg.sensor_type>>])
             ELSE NONE
    ELSE NONE

\* NONE or Some(anomaly_info). The rate shown in the message is left out.
detect_rate_of_change_anomaly(history, current_agg) ==
    LET key == AggKey(current_agg.sensor_type, current_agg.location, current_agg.timeframe) IN
    IF Has(history, key) /\ Len(Get(history, key)) >= 2
    THEN LET list == Get(history, key)
             previous_data == list[Len(list) - 1]
             time_diff == Fl(Frac(current_agg.timestamp - previous_data.timestamp, 60))
         IN  IF FracLess(FracOfInt(0), time_diff)
                /\ FracLess(FracOfInt(rate_of_change),
                            FlDiv(FracAbs(FlSub(current_agg.average, previous_data.average)),
                                  time_diff))
             THEN Some([type |-> "rapid_change", severity |-> "warning",
                        message |-> <<"Rapid change in", current_agg.sensor_type>>])
             ELSE NONE
    ELSE NONE

\* A faulty variant of detect_trend_anomaly, kept to show what C15 rules out:
\* only the last 3 of the 5 averages are compared.
TrendOverLastThree(history, current_agg) ==
    LET key == AggKey(current_agg.sensor_type, current_agg.location, current_agg.timeframe) IN
    IF Has(history, key) /\ Len(Get(history, key)) >= 5
    THEN LET list == Get(history, key)
             values == [i \in 1..5 |-> list[Len(list) - 5 + i].average]
         IN  IF (\A i \in 3..4 : FracLess(values[i], values[i + 1]))
                \/ (\A i \in 3..4 : FracLess(values[i + 1], values[i]))
             THEN LET trend == IF FracLess(values[1], values[5])
                               THEN "increasing" ELSE "decreasing"
                  IN  Some([type |-> "sustained_trend", severity |-> "info",
                            message |-> <<"Sustained", trend, "trend in", current_agg.sensor_type>>])
             ELSE NONE
    ELSE NONE

\* NONE or Some(anomaly_info)
detect_trend_anomaly(history, current_agg) ==
    LET key == AggKey(current_agg.sensor_type, current_agg.location, current_agg.timeframe) IN
    IF Has(history, key) /\ Len(Get(history, key)) >= 5
    THEN LET list == Get(history, key)
             values == [i \in 1..5 |-> list[Len(list) - 5 + i].average]
         IN  IF (\A i \in 1..4 : FracLess(values[i], values[i + 1]))
                \/ (\A i \in 1..4 : FracLess(values[i + 1], values[i]))
             THEN LET trend == IF FracLess(values[1], values[5])
                               THEN "increasing" ELSE "decreasing"
                  IN  Some([type |-> "sustained_trend", severity |-> "info",
                            message |-> <<"Sustained", trend, "trend in", current_agg.sensor_type>>])
             ELSE NONE
    ELSE NONE

\* A faulty variant of AdvancedAnomalyInfos, kept to show what C30 rules out:
\* the trend is listed before the variance and the rate of change.
AdvancedAnomalyInfosTrendFirst(history, aggregated) ==
    detect_trend_anomaly(history, aggregated)
    \o (IF HighVariance(aggregated)
        THEN << [type |-> "high_variance", severity |-> "warning",
                 message |-> <<"High variance detected in", aggregated.sensor_type>>] >>
        ELSE <<>>)
    \o detect_rate_of_change_anomaly(history, aggregated)

\* The list anomalies that detect_advanced_anomalies builds before it creates
\* the Anomaly objects.
AdvancedAnomalyInfos(history, aggregated) ==
    (IF HighVariance(aggregated)
     THEN << [type |-> "high_variance", severity |-> "warning",
              message |-> <<"High variance detected in", aggregated.sensor_type>>] >>
     ELSE <<>>)
    \o detect_rate_of_change_anomaly(history, aggregated)
    \o detect_trend_anomaly(history, aggregated)

(* ------------------------------ sorted ---------------------------------- *)

RemoveAt(s, i) == SubSeq(s, 1, i - 1) \o SubSeq(s, i + 1, Len(s))

\* sorted(s, key=lambda x: x.timestamp, reverse=True): stable, so records with
\* equal timestamps keep their order.
RECURSIVE SortedByTimestampDesc(_)
SortedByTimestampDesc(s) ==
    IF s = <<>> THEN <<>>
    ELSE LET i == CHOOSE i \in 1..Len(s) :
                    /\ \A j \in 1..Len(s) : s[j].timestamp <= s[i].timestamp
                    /\ \A j \in 1..(i - 1) : s[j].timestamp < s[i].timestamp
         IN  <<s[i]>> \o SortedByTimestampDesc(RemoveAt(s, i))

\* s[:n]; a negative n counts from the end
Take(s, n) ==
    IF n >= 0
    THEN SubSeq(s, 1, IF n < Len(s) THEN n ELSE Len(s))
    ELSE SubSeq(s, 1, IF Len(s) + n > 0 THEN Len(s) + n ELSE 0)

(* ------------------------------ to_dict --------------------------------- *)

\* datetime.isoformat(): a string that determines the instant.
Iso(time) == <<"isoformat", time>>

\* to_dict() of AggregatedData and of Anomaly: the timestamp becomes its
\* isoformat string, the sensor type its value.
ToDict(record) == [record EXCEPT !.timestamp = Iso(record.timestamp)]

(* ------------------------------ state ----------------------------------- *)

VARIABLES
    raw_data_buffer,   \* dict: buffer key -> list of SensorReading
    aggregated_data,   \* dict: aggregate key -> list of AggregatedData
    edge_devices,      \* dict: device_id -> device entry
    anomalies,         \* list of Anomaly
    aggregation_lock,  \* threading.Lock: 0 when free, else the thread holding it
    now,               \* datetime.now(), seconds
    uuid_count,        \* uuid4 values drawn so far; the next one is uuid_count + 1
    connected,         \* the three signals are connected to the window's slots
    emitted,           \* the emit calls made so far, oldest first: [signal, payload]
    returned,          \* the public calls that have returned or raised, oldest first
    pc,                \* per thread: where it stands
    frame,             \* per thread: arguments and locals of the running call
    ops,               \* public operations started so far
    advances           \* clock advances so far

\* CommandWorker and the broker it talks to
VARIABLES
    connection,        \* self.connection and self.channel: NONE, or Some("open") once set up
    link,              \* the broker can be reached over the connection
    command_responses, \* the queue 'command_responses': bodies ready for delivery, oldest first
    fetched,           \* the deliveries basic_get has made: [delivery_tag, body]
    settled,           \* the basic_ack and basic_nack calls the broker has taken, in order
    consumer_timer,    \* self.consumer_timer is active
    consuming,         \* self.consuming
    worker_pc,         \* where _check_for_messages stands
    worker_frame       \* its locals: method_frame, body, response

shared == <<raw_data_buffer, aggregated_data, edge_devices, anomalies>>

command_worker == <<connection, link, command_responses, fetched, settled, consumer_timer,
                    consuming, worker_pc, worker_frame>>

vars == <<raw_data_buffer, aggregated_data, edge_devices, anomalies, aggregation_lock,
          now, uuid_count, connected, emitted, returned, pc, frame, ops, advances,
          command_worker>>

Threads == 1..NumThreads

\* The thread that owns the window: signals emitted on it run the slots directly.
GuiThread == 1

EmptyFrame ==
    [op |-> "none", entry |-> "idle", exit |-> "idle",
     device_id |-> "", device_type |-> "", location |-> <<>>, capabilities |-> {},
     status |-> "", battery_level |-> NONE, upd_ret |-> "idle",
     reading |-> NONE, absent |-> FALSE,
     keys |-> <<>>, ki |-> 0, wi |-> 0, sensor_type |-> <<>>, agg |-> NONE, pending |-> <<>>,
     query |-> "none", q_sensor_type |-> NONE, q_location |-> NONE, limit |-> 0,
     result |-> NONE, error |-> "none",
     before |-> NONE]

\* The locals of _check_for_messages before basic_get has returned.
NoLocals == [method_frame |-> NONE, body |-> NONE, response |-> NONE]

\* CommandWorker.__init__
WorkerInit ==
    /\ connection = NONE
    /\ link = TRUE
    /\ command_responses = <<>>
    /\ fetched = <<>>
    /\ settled = <<>>
    /\ consumer_timer = FALSE
    /\ consuming = FALSE
    /\ worker_pc = "idle"
    /\ worker_frame = NoLocals

\* EdgeToFogAggregator.__init__
Init ==
    /\ raw_data_buffer = <<>>
    /\ aggregated_data = <<>>
    /\ edge_devices = <<>>
    /\ anomalies = <<>>
    /\ aggregation_lock = 0
    /\ now = 0
    /\ uuid_count = 0
    /\ connected = FALSE
    /\ WorkerInit
    /\ emitted = <<>>
    /\ returned = <<>>
    /\ pc = [t \in Threads |-> "idle"]
    /\ frame = [t \in Threads |-> EmptyFrame]
    /\ ops = 0
    /\ advances = 0

(* ------------------------- lock, emit, return --------------------------- *)

\* The record of a call that is over.
Outcome(f) == [op |-> f.op, error |-> f.error, reading |-> f.reading]

\* Thread t goes on at pc next with frame f; at "idle" its public call is over.
Goto(t, next, f) ==
    /\ pc' = [pc EXCEPT ![t] = next]
    /\ IF next = "idle"
       THEN /\ frame' = [frame EXCEPT ![t] = [EmptyFrame EXCEPT !.op = f.op, !.result = f.result]]
            /\ returned' = Append(returned, Outcome(f))
       ELSE /\ frame' = [frame EXCEPT ![t] = f]
            /\ UNCHANGED returned

\* aggregation_lock.acquire() succeeds for t: threading.Lock is not reentrant.
CanAcquire(t) == aggregation_lock = 0

\* History kept for the properties, read by no step: the anomaly count and the
\* aggregate history found when the lock was taken.
Entered == [anomalies |-> Len(anomalies), aggregated_data |-> aggregated_data]

\* `with self.aggregation_lock:` entered: the thread waits at pc "acquire"
\* until the lock is free.
AcquireLock(t) ==
    /\ pc[t] = "acquire"
    /\ CanAcquire(t)
    /\ aggregation_lock' = t
    /\ pc' = [pc EXCEPT ![t] = frame[t].entry]
    /\ frame' = [frame EXCEPT ![t].before = Some(Entered)]
    /\ UNCHANGED <<shared, now, uuid_count, connected, command_worker, emitted, returned, ops,
                   advances>>

\* The end of a `with self.aggregation_lock:` block, reached normally or by an
\* exception: the lock is released and the call returns to frame.exit.
ReleaseLock(t) ==
    /\ pc[t] = "release"
    /\ aggregation_lock' = 0
    /\ Goto(t, frame[t].exit, [frame[t] EXCEPT !.exit = "idle"])
    /\ UNCHANGED <<shared, now, uuid_count, connected, command_worker, emitted, ops, advances>>

\* The query a slot of new_greenhouse.py calls for a signal:
\* on_device_status_changed -> update_devices_table -> get_device_status,
\* on_new_aggregated_data -> update_edge_metrics_display -> get_aggregated_metrics(sensor_type),
\* on_anomaly_detected -> update_anomalies_list -> get_recent_anomalies(20).
SlotQuery(signal) ==
    CASE signal = "device_status_changed" -> "get_device_status"
      [] signal = "new_aggregated_data" -> "get_aggregated_metrics"
      [] signal = "anomaly_detected" -> "get_recent_anomalies"

\* The slot runs inside emit() when the signal is connected and emitted on the
\* GUI thread (a direct connection). Emitted on another thread the call is
\* queued to the GUI thread, which runs the query later as a call of its own.
SlotRunsDirectly(t) == connected /\ t = GuiThread

\* pc and frame of t after signal.emit(payload) when the code after it is at
\* pc next: with a direct slot the thread first calls the slot's query.
AfterEmit(t, signal, next, f) ==
    IF SlotRunsDirectly(t)
    THEN /\ pc' = [pc EXCEPT ![t] = "acquire"]
         /\ frame' = [frame EXCEPT ![t] =
                        [f EXCEPT !.entry = "query_body", !.exit = next,
                                  !.query = SlotQuery(signal),
                                  !.q_sensor_type = Some(TEMPERATURE), !.q_location = NONE,
                                  !.limit = 20]]
         /\ UNCHANGED returned
    ELSE Goto(t, next, f)

\* A public operation is called by an idle thread.
CanCall(t) == pc[t] = "idle" /\ ops < MaxOps

(* ----------------------- register_edge_device --------------------------- *)

CallRegister(t, device_id, device_type, location, capabilities) ==
    /\ CanCall(t)
    /\ pc' = [pc EXCEPT ![t] = "acquire"]
    /\ frame' = [frame EXCEPT ![t] =
                   [EmptyFrame EXCEPT !.op = "register_edge_device", !.entry = "reg_body",
                                      !.device_id = device_id, !.device_type = device_type,
                                      !.location = location, !.capabilities = capabilities]]
    /\ ops' = ops + 1
    /\ UNCHANGED <<shared, aggregation_lock, now, uuid_count, connected, command_worker, emitted,
                   returned, advances>>

\* The entry register_edge_device stores.
NewDevice(device_type, location, capabilities, time) ==
    [type |-> device_type, location |-> location, capabilities |-> capabilities,
     ip_address |-> NONE, last_seen |-> time, status |-> "online",
     battery_level |-> 100, registered_at |-> time]

\* A faulty variant of StoreDevice, kept to show what C8 rules out: the entry
\* is added to the table even when the id is already there.
StoreDeviceDuplicating(devices, device_id, entry) == Append(devices, <<device_id, entry>>)

\* A faulty variant of StoreDevice, kept to show what C31 rules out: a known
\* device keeps the status and the battery level its entry held.
StoreDeviceKeepingState(devices, device_id, entry) ==
    IF Has(devices, device_id)
    THEN Put(devices, device_id,
             [entry EXCEPT !.status = Get(devices, device_id).status,
                           !.battery_level = Get(devices, device_id).battery_level])
    ELSE Put(devices, device_id, entry)

\* self.edge_devices[device_id] = {...}
StoreDevice(devices, device_id, entry) == Put(devices, device_id, entry)

\* The body of register_edge_device under the lock: store the entry, emit.
RegBody(t) ==
    /\ pc[t] = "reg_body"
    /\ LET f == frame[t] IN
       /\ edge_devices' = StoreDevice(edge_devices, f.device_id,
                                      NewDevice(f.device_type, f.location, f.capabilities, now))
       /\ emitted' = Append(emitted,
                            [signal |-> "device_status_changed",
                             payload |-> [device_id |-> f.device_id, status |-> "registered",
                                          location |-> f.location,
                                          capabilities |-> f.capabilities]])
       /\ AfterEmit(t, "device_status_changed", "release", f)
    /\ UNCHANGED <<raw_data_buffer, aggregated_data, anomalies, aggregation_lock, now, uuid_count,
                   connected, command_worker, ops, advances>>

(* ----------------------- update_device_status --------------------------- *)

CallUpdate(t, device_id, status, battery_level) ==
    /\ CanCall(t)
    /\ pc' = [pc EXCEPT ![t] = "upd_check"]
    /\ frame' = [frame EXCEPT ![t] =
                   [EmptyFrame EXCEPT !.op = "update_device_status",
                                      !.device_id = device_id, !.status = status,
                                      !.battery_level = battery_level, !.upd_ret = "idle"]]
    /\ ops' = ops + 1
    /\ UNCHANGED <<shared, aggregation_lock, now, uuid_count, connected, command_worker, emitted,
                   returned, advances>>

\* A faulty variant of UpdCheck, kept to show what C9 rules out: the
\* notification is emitted for an unknown device too.
UpdCheckNotifyingUnknown(t) ==
    /\ pc[t] = "upd_check"
    /\ IF Has(edge_devices, frame[t].device_id)
       THEN Goto(t, "upd_last_seen", frame[t])
       ELSE Goto(t, "upd_emit", frame[t])
    /\ UNCHANGED <<shared, aggregation_lock, now, uuid_count, connected, command_worker, emitted,
                   ops, advances>>

\* A faulty variant of UpdCheck, kept to show what C33 rules out: a device
\* that is not in the table is entered into it.
UpdCheckAutoRegistering(t) ==
    /\ pc[t] = "upd_check"
    /\ IF Has(edge_devices, frame[t].device_id)
       THEN /\ Goto(t, "upd_last_seen", frame[t])
            /\ UNCHANGED edge_devices
       ELSE /\ Goto(t, frame[t].upd_ret, frame[t])
            /\ edge_devices' = Put(edge_devices, frame[t].device_id,
                                   NewDevice("unknown", <<>>, {}, now))
    /\ UNCHANGED <<raw_data_buffer, aggregated_data, anomalies, aggregation_lock, now, uuid_count,
                   connected, command_worker, emitted, ops, advances>>

\* if device_id in self.edge_devices: (no lock is taken)
UpdCheck(t) ==
    /\ pc[t] = "upd_check"
    /\ IF Has(edge_devices, frame[t].device_id)
       THEN Goto(t, "upd_last_seen", frame[t])
       ELSE Goto(t, frame[t].upd_ret, frame[t])
    /\ UNCHANGED <<shared, aggregation_lock, now, uuid_count, connected, command_worker, emitted,
                   ops, advances>>

\* self.edge_devices[device_id][field] = value
SetDeviceField(t, at, field, value, next) ==
    /\ pc[t] = at
    /\ edge_devices' = Put(edge_devices, frame[t].device_id,
                           [Get(edge_devices, frame[t].device_id) EXCEPT ![field] = value])
    /\ pc' = [pc EXCEPT ![t] = next]
    /\ UNCHANGED <<raw_data_buffer, aggregated_data, anomalies, aggregation_lock, now, uuid_count,
                   connected, command_worker, emitted, returned, frame, ops, advances>>

UpdLastSeen(t) == SetDeviceField(t, "upd_last_seen", "last_seen", now, "upd_status")

UpdStatus(t) == SetDeviceField(t, "upd_status", "status", frame[t].status, "upd_battery")

\* A faulty variant of UpdBattery, kept to show what C32 rules out: the
\* battery level is stored whether or not one was supplied (0 when not).
UpdBatteryAlways(t) ==
    SetDeviceField(t, "upd_battery", "battery_level",
                   IF frame[t].battery_level # NONE THEN frame[t].battery_level[1] ELSE 0,
                   "upd_emit")

\* if battery_level is not None: ...['battery_level'] = battery_level
UpdBattery(t) ==
    IF frame[t].battery_level # NONE
    THEN SetDeviceField(t, "upd_battery", "battery_level", frame[t].battery_level[1], "upd_emit")
    ELSE /\ pc[t] = "upd_battery"
         /\ pc' = [pc EXCEPT ![t] = "upd_emit"]
         /\ UNCHANGED <<shared, aggregation_lock, now, uuid_count, connected, command_worker,
                        emitted, returned, frame, ops, advances>>

\* self.device_status_changed.emit(status_info)
UpdEmit(t) ==
    /\ pc[t] = "upd_emit"
    /\ emitted' = Append(emitted,
                         [signal |-> "device_status_changed",
                          payload |-> [device_id |-> frame[t].device_id,
                                       status |-> frame[t].status,
                                       battery_level |-> frame[t].battery_level,
                                       last_seen |-> Iso(now)]])
    /\ AfterEmit(t, "device_status_changed", frame[t].upd_ret, frame[t])
    /\ UNCHANGED <<shared, aggregation_lock, now, uuid_count, connected, command_worker, ops,
                   advances>>

(* ------------------------ add_sensor_reading ---------------------------- *)

CallAdd(t, reading) ==
    /\ CanCall(t)
    /\ pc' = [pc EXCEPT ![t] = "acquire"]
    /\ frame' = [frame EXCEPT ![t] =
                   [EmptyFrame EXCEPT !.op = "add_sensor_reading", !.entry = "add_check",
                                      !.reading = Some(reading)]]
    /\ ops' = ops + 1
    /\ UNCHANGED <<shared, aggregation_lock, now, uuid_count, connected, command_worker, emitted,
                   returned, advances>>

ReadingKey(r) == BufferKey(r.sensor_type, r.location)

\* if key not in self.raw_data_buffer:
AddCheck(t) ==
    /\ pc[t] = "add_check"
    /\ LET absent == ~Has(raw_data_buffer, ReadingKey(frame[t].reading[1])) IN
       /\ frame' = [frame EXCEPT ![t].absent = absent]
       /\ pc' = [pc EXCEPT ![t] = IF absent THEN "add_create" ELSE "add_append"]
    /\ UNCHANGED <<shared, aggregation_lock, now, uuid_count, connected, command_worker, emitted,
                   returned, ops, advances>>

\* self.raw_data_buffer[key] = []
AddCreate(t) ==
    /\ pc[t] = "add_create"
    /\ raw_data_buffer' = Put(raw_data_buffer, ReadingKey(frame[t].reading[1]), <<>>)
    /\ pc' = [pc EXCEPT ![t] = "add_append"]
    /\ UNCHANGED <<aggregated_data, edge_devices, anomalies, aggregation_lock, now, uuid_count,
                   connected, command_worker, emitted, returned, frame, ops, advances>>

\* A faulty variant of AddAppend, kept to show what C10 rules out: the reading
\* is appended but update_device_status is not called.
AddAppendWithoutUpdate(t) ==
    /\ pc[t] = "add_append"
    /\ LET r == frame[t].reading[1]
           key == BufferKey(r.sensor_type, r.location)
       IN  /\ Has(raw_data_buffer, key)
           /\ raw_data_buffer' = Put(raw_data_buffer, key, Append(Get(raw_data_buffer, key), r))
           /\ pc' = [pc EXCEPT ![t] = "add_anomaly"]
           /\ UNCHANGED frame
    /\ UNCHANGED <<aggregated_data, edge_devices, anomalies, aggregation_lock, now, uuid_count,
                   connected, command_worker, emitted, returned, ops, advances>>

\* self.raw_data_buffer[key].append(reading), then the call
\* self.update_device_status(reading.device_id, 'online', reading.battery_level)
AddAppend(t) ==
    /\ pc[t] = "add_append"
    /\ LET r == frame[t].reading[1]
           key == ReadingKey(r)
       IN  IF Has(raw_data_buffer, key)
           THEN /\ raw_data_buffer' = Put(raw_data_buffer, key, Append(Get(raw_data_buffer, key), r))
                /\ pc' = [pc EXCEPT ![t] = "upd_check"]
                /\ frame' = [frame EXCEPT ![t].device_id = r.device_id,
                                          ![t].status = "online",
                                          ![t].battery_level = r.battery_level,
                                          ![t].upd_ret = "add_anomaly"]
           ELSE /\ frame' = [frame EXCEPT ![t].error = "KeyError"]
                /\ pc' = [pc EXCEPT ![t] = "release"]
                /\ UNCHANGED raw_data_buffer
    /\ UNCHANGED <<aggregated_data, edge_devices, anomalies, aggregation_lock, now, uuid_count,
                   connected, command_worker, emitted, returned, ops, advances>>

\* A faulty variant of OutOfRange, kept to show what C6 rules out: the two
\* ends of the expected range count as out of range.
OutOfRangeAtBounds(value, range) == value <= range[1] \/ value >= range[2]

\* reading.value < min_expected or reading.value > max_expected
OutOfRange(value, range) == value < range[1] \/ value > range[2]

\* A faulty variant of Severity, kept to show what C7 rules out: a distance
\* of exactly ten units is critical.
SeverityFromTen(value, range) ==
    IF Abs(value - (range[1] + range[2]) \div 2) >= 100 THEN "critical" ELSE "warning"

\* "critical" if abs(value - (min_expected + max_expected)/2) > 10 else "warning";
\* every table sum is even in tenths, so the halving is exact.
Severity(value, range) ==
    IF Abs(value - (range[1] + range[2]) \div 2) > CriticalDistance THEN "critical" ELSE "warning"

\* The Anomaly check_immediate_anomalies builds for an out-of-range reading.
ImmediateAnomaly(reading, id, time) ==
    LET range == Get(expected_ranges, reading.sensor_type) IN
    [anomaly_id |-> id,
     sensor_type |-> reading.sensor_type,
     location |-> reading.location,
     anomaly_type |-> "out_of_range",
     severity |-> Severity(reading.value, range),
     message |-> <<reading.sensor_type, "out of range:", reading.value, "expected", range>>,
     timestamp |-> time,
     value |-> FracOfInt(reading.value),
     expected_range |-> range]

\* check_immediate_anomalies(reading), called by add_sensor_reading under the lock
AddAnomaly(t) ==
    /\ pc[t] = "add_anomaly"
    /\ LET r == frame[t].reading[1] IN
       IF Has(expected_ranges, r.sensor_type)
          /\ OutOfRange(r.value, Get(expected_ranges, r.sensor_type))
       THEN /\ anomalies' = Append(anomalies, ImmediateAnomaly(r, uuid_count + 1, now))
            /\ uuid_count' = uuid_count + 1
            /\ emitted' = Append(emitted,
                                 [signal |-> "anomaly_detected",
                                  payload |-> ToDict(ImmediateAnomaly(r, uuid_count + 1, now))])
            /\ AfterEmit(t, "anomaly_detected", "release", frame[t])
       ELSE /\ Goto(t, "release", frame[t])
            /\ UNCHANGED <<anomalies, uuid_count, emitted>>
    /\ UNCHANGED <<raw_data_buffer, aggregated_data, edge_devices, aggregation_lock, now,
                   connected, command_worker, ops, advances>>

(* --------------------- run_periodic_aggregation ------------------------- *)

CallTick(t) ==
    /\ CanCall(t)
    /\ pc' = [pc EXCEPT ![t] = "acquire"]
    /\ frame' = [frame EXCEPT ![t] =
                   [EmptyFrame EXCEPT !.op = "run_periodic_aggregation", !.entry = "tick_keys"]]
    /\ ops' = ops + 1
    /\ UNCHANGED <<shared, aggregation_lock, now, uuid_count, connected, command_worker, emitted,
                   returned, advances>>

\* for key in list(self.raw_data_buffer.keys()):
TickKeys(t) ==
    /\ pc[t] = "tick_keys"
    /\ frame' = [frame EXCEPT ![t].keys = DictKeys(raw_data_buffer), ![t].ki = 1]
    /\ pc' = [pc EXCEPT ![t] = "tick_key"]
    /\ UNCHANGED <<shared, aggregation_lock, now, uuid_count, connected, command_worker, emitted,
                   returned, ops, advances>>

\* sensor_type_str, location = key.split('_', 1); sensor_type = SensorType(sensor_type_str)
\* SensorType(...) raises ValueError for a string that is no member's value; the
\* exception leaves the `with` block and the operation.
TickKey(t) ==
    /\ pc[t] = "tick_key"
    /\ LET f == frame[t] IN
       IF f.ki > Len(f.keys)
       THEN /\ pc' = [pc EXCEPT ![t] = "release"]
            /\ UNCHANGED frame
       ELSE LET parts == Split1(f.keys[f.ki]) IN
            IF IsSensorTypeValue(parts[1])
            THEN /\ frame' = [frame EXCEPT ![t].sensor_type = parts[1],
                                           ![t].location = parts[2], ![t].wi = 1]
                 /\ pc' = [pc EXCEPT ![t] = "tick_window"]
            ELSE /\ frame' = [frame EXCEPT ![t].error = "ValueError"]
                 /\ pc' = [pc EXCEPT ![t] = "release"]
    /\ UNCHANGED <<shared, aggregation_lock, now, uuid_count, connected, command_worker, emitted,
                   returned, ops, advances>>

\* One pass of `for window_name, window_seconds in self.aggregation_windows.items():`
\* up to and including new_aggregated_data.emit.
TickWindow(t) ==
    /\ pc[t] = "tick_window"
    /\ LET f == frame[t] IN
       IF f.wi > Len(aggregation_windows)
       THEN /\ Goto(t, "tick_key", [f EXCEPT !.ki = f.ki + 1])
            /\ UNCHANGED <<aggregated_data, emitted>>
       ELSE LET window_name == aggregation_windows[f.wi][1]
                aggregated == aggregate_data(raw_data_buffer, f.sensor_type, f.location,
                                             window_name, now)
            IN  IF aggregated = NONE
                THEN /\ Goto(t, "tick_window", [f EXCEPT !.wi = f.wi + 1])
                     /\ UNCHANGED <<aggregated_data, emitted>>
                ELSE LET agg_key == AggKey(f.sensor_type, f.location, window_name)
                         old == IF Has(aggregated_data, agg_key)
                                THEN Get(aggregated_data, agg_key) ELSE <<>>
                     IN  /\ aggregated_data' = Put(aggregated_data, agg_key,
                                                   Append(old, aggregated[1]))
                         /\ emitted' = Append(emitted, [signal |-> "new_aggregated_data",
                                                        payload |-> ToDict(aggregated[1])])
                         /\ AfterEmit(t, "new_aggregated_data", "tick_detect",
                                      [f EXCEPT !.agg = aggregated])
    /\ UNCHANGED <<raw_data_buffer, edge_devices, anomalies, aggregation_lock, now, uuid_count,
                   connected, command_worker, ops, advances>>

\* A faulty variant of TickDetect, kept to show what C34 rules out: the tick
\* drops the readings of the key it has just aggregated.
TickDetectConsuming(t) ==
    /\ pc[t] = "tick_detect"
    /\ frame' = [frame EXCEPT ![t].pending = AdvancedAnomalyInfos(aggregated_data, frame[t].agg[1])]
    /\ pc' = [pc EXCEPT ![t] = "tick_anomaly"]
    /\ raw_data_buffer' = Del(raw_data_buffer, frame[t].keys[frame[t].ki])
    /\ UNCHANGED <<aggregated_data, edge_devices, anomalies, aggregation_lock, now, uuid_count,
                   connected, command_worker, emitted, returned, ops, advances>>

\* detect_advanced_anomalies(aggregated) up to its list of anomaly infos
TickDetect(t) ==
    /\ pc[t] = "tick_detect"
    /\ frame' = [frame EXCEPT ![t].pending = AdvancedAnomalyInfos(aggregated_data, frame[t].agg[1])]
    /\ pc' = [pc EXCEPT ![t] = "tick_anomaly"]
    /\ UNCHANGED <<shared, aggregation_lock, now, uuid_count, connected, command_worker, emitted,
                   returned, ops, advances>>

\* self.expected_ranges.get(sensor_type, (0, 100))
ExpectedRangeOrDefault(sensor_type) ==
    IF Has(expected_ranges, sensor_type) THEN Get(expected_ranges, sensor_type) ELSE <<0, 1000>>

\* The Anomaly detect_advanced_anomalies builds from an anomaly info.
AdvancedAnomaly(aggregated, info, id, time) ==
    [anomaly_id |-> id,
     sensor_type |-> aggregated.sensor_type,
     location |-> aggregated.location,
     anomaly_type |-> info.type,
     severity |-> info.severity,
     message |-> info.message,
     timestamp |-> time,
     value |-> aggregated.average,
     expected_range |-> ExpectedRangeOrDefault(aggregated.sensor_type)]

\* One pass of `for anomaly_info in anomalies:` of detect_advanced_anomalies;
\* after the last one the window loop goes on.
TickAnomaly(t) ==
    /\ pc[t] = "tick_anomaly"
    /\ LET f == frame[t] IN
       IF f.pending = <<>>
       THEN /\ Goto(t, "tick_window", [f EXCEPT !.wi = f.wi + 1, !.agg = NONE])
            /\ UNCHANGED <<anomalies, uuid_count, emitted>>
       ELSE /\ anomalies' = Append(anomalies,
                                   AdvancedAnomaly(f.agg[1], Head(f.pending), uuid_count + 1, now))
            /\ uuid_count' = uuid_count + 1
            /\ emitted' = Append(emitted,
                                 [signal |-> "anomaly_detected",
                                  payload |-> ToDict(AdvancedAnomaly(f.agg[1], Head(f.pending),
                                                                     uuid_count + 1, now))])
            /\ AfterEmit(t, "anomaly_detected", "tick_anomaly",
                         [f EXCEPT !.pending = Tail(f.pending)])
    /\ UNCHANGED <<raw_data_buffer, aggregated_data, edge_devices, aggregation_lock, now,
                   connected, command_worker, ops, advances>>

(* -------------------------- cleanup_old_data ---------------------------- *)

CallCleanup(t) ==
    /\ CanCall(t)
    /\ pc' = [pc EXCEPT ![t] = "acquire"]
    /\ frame' = [frame EXCEPT ![t] =
                   [EmptyFrame EXCEPT !.op = "cleanup_old_data", !.entry = "cleanup_body"]]
    /\ ops' = ops + 1
    /\ UNCHANGED <<shared, aggregation_lock, now, uuid_count, connected, command_worker, emitted,
                   returned, advances>>

\* A faulty variant of PruneDict, kept to show what C28 rules out: the kept
\* records are stored newest first, as the cleanup stores the anomalies.
RECURSIVE PruneDictNewestFirst(_, _, _)
PruneDictNewestFirst(d, current_time, max_age) ==
    IF d = <<>> THEN <<>>
    ELSE LET kept == SortedByTimestampDesc(
                         SelectSeq(Head(d)[2], LAMBDA r : current_time - r.timestamp < max_age))
             rest == PruneDictNewestFirst(Tail(d), current_time, max_age)
         IN  IF kept = <<>> THEN rest ELSE << <<Head(d)[1], kept>> >> \o rest

\* Each list filtered to the records younger than max_age; emptied keys deleted.
RECURSIVE PruneDict(_, _, _)
PruneDict(d, current_time, max_age) ==
    IF d = <<>> THEN <<>>
    ELSE LET kept == SelectSeq(Head(d)[2], LAMBDA r : current_time - r.timestamp < max_age)
             rest == PruneDict(Tail(d), current_time, max_age)
         IN  IF kept = <<>> THEN rest ELSE << <<Head(d)[1], kept>> >> \o rest

\* A faulty variant of PruneAnomalies, kept to show what C18 rules out: the
\* first 100 are kept as they stand, without sorting.
PruneWithoutSort(list) ==
    IF Len(list) > MaxAnomalies
    THEN Take(list, MaxAnomalies)
    ELSE list

\* The anomaly list cleanup_old_data leaves.
PruneAnomalies(list) ==
    IF Len(list) > MaxAnomalies
    THEN Take(SortedByTimestampDesc(list), MaxAnomalies)
    ELSE list

\* The body of cleanup_old_data under the lock.
CleanupBody(t) ==
    /\ pc[t] = "cleanup_body"
    /\ raw_data_buffer' = PruneDict(raw_data_buffer, now, RawRetention)
    /\ aggregated_data' = PruneDict(aggregated_data, now, AggRetention)
    /\ anomalies' = PruneAnomalies(anomalies)
    /\ pc' = [pc EXCEPT ![t] = "release"]
    /\ UNCHANGED <<edge_devices, aggregation_lock, now, uuid_count, connected, command_worker,
                   emitted, returned, frame, ops, advances>>

(* ------------------------------ queries --------------------------------- *)

\* The list get_device_status returns.
DeviceStatusList(devices) ==
    [i \in 1..Len(devices) |->
        [device_id |-> devices[i][1],
         type |-> devices[i][2].type,
         location |-> devices[i][2].location,
         status |-> devices[i][2].status,
         battery_level |-> devices[i][2].battery_level,
         last_seen |-> Iso(devices[i][2].last_seen),
         capabilities |-> devices[i][2].capabilities]]

\* A faulty variant of RecentAnomalies, kept to show what C21 rules out: the
\* history is cut to the limit as it stands, without sorting.
RecentWithoutSort(list, limit) ==
    LET recent_anomalies == Take(list, limit)
    IN  [i \in 1..Len(recent_anomalies) |-> ToDict(recent_anomalies[i])]

\* The list get_recent_anomalies(limit) returns.
RecentAnomalies(list, limit) ==
    LET recent_anomalies == Take(SortedByTimestampDesc(list), limit)
    IN  [i \in 1..Len(recent_anomalies) |-> ToDict(recent_anomalies[i])]

\* The windows get_aggregated_metrics reports.
MetricsWindows == <<"1min", "5min", "15min">>

\* list(SensorType), in definition order
SensorTypeList == <<TEMPERATURE, HUMIDITY, SOIL_MOISTURE, LIGHT_INTENSITY, CO2_LEVEL, SOIL_PH>>

\* `if location` / `if sensor_type`: None and the empty string are false.
Truthy(opt) == opt # NONE /\ opt[1] # <<"">>

\* The mapping get_aggregated_metrics returns, as the set of its
\* <<location, <<sensor_type, <<window, aggregate dict>> items>> items>> items
\* (the locations of the devices are visited in set order).
AggregatedMetrics(buffer, devices, sensor_type, location, current_time) ==
    LET locations == IF Truthy(location) THEN {location[1]}
                     ELSE {devices[i][2].location : i \in 1..Len(devices)}
        sensor_types == IF sensor_type # NONE THEN <<sensor_type[1]>> ELSE SensorTypeList
        windows(loc, s_type) ==
            SelectSeq([i \in 1..Len(MetricsWindows) |->
                          <<MetricsWindows[i],
                            aggregate_data(buffer, s_type, loc, MetricsWindows[i], current_time)>>],
                      LAMBDA e : e[2] # NONE)
        per_type(loc) ==
            [i \in 1..Len(sensor_types) |->
                <<sensor_types[i],
                  [j \in 1..Len(windows(loc, sensor_types[i])) |->
                      <<windows(loc, sensor_types[i])[j][1],
                        ToDict(windows(loc, sensor_types[i])[j][2][1])>>]>>]
    IN  {<<loc, per_type(loc)>> : loc \in locations}

CallGetDeviceStatus(t) ==
    /\ CanCall(t)
    /\ pc' = [pc EXCEPT ![t] = "acquire"]
    /\ frame' = [frame EXCEPT ![t] =
                   [EmptyFrame EXCEPT !.op = "get_device_status", !.entry = "query_body",
                                      !.query = "get_device_status"]]
    /\ ops' = ops + 1
    /\ UNCHANGED <<shared, aggregation_lock, now, uuid_count, connected, command_worker, emitted,
                   returned, advances>>

CallGetRecentAnomalies(t, limit) ==
    /\ CanCall(t)
    /\ pc' = [pc EXCEPT ![t] = "acquire"]
    /\ frame' = [frame EXCEPT ![t] =
                   [EmptyFrame EXCEPT !.op = "get_recent_anomalies", !.entry = "query_body",
                                      !.query = "get_recent_anomalies", !.limit = limit]]
    /\ ops' = ops + 1
    /\ UNCHANGED <<shared, aggregation_lock, now, uuid_count, connected, command_worker, emitted,
                   returned, advances>>

CallGetAggregatedMetrics(t, sensor_type, location) ==
    /\ CanCall(t)
    /\ pc' = [pc EXCEPT ![t] = "acquire"]
    /\ frame' = [frame EXCEPT ![t] =
                   [EmptyFrame EXCEPT !.op = "get_aggregated_metrics", !.entry = "query_body",
                                      !.query = "get_aggregated_metrics",
                                      !.q_sensor_type = sensor_type, !.q_location = location]]
    /\ ops' = ops + 1
    /\ UNCHANGED <<shared, aggregation_lock, now, uuid_count, connected, command_worker, emitted,
                   returned, advances>>

\* A faulty variant of QueryBody, kept to show what C35 rules out:
\* get_aggregated_metrics called with a sensor type and a location stores the
\* 1min aggregate it computes in the aggregate history, as a tick does.
QueryBodyRecording(t) ==
    /\ pc[t] = "query_body"
    /\ LET f == frame[t]
           value == CASE f.query = "get_device_status" -> DeviceStatusList(edge_devices)
                      [] f.query = "get_recent_anomalies" -> RecentAnomalies(anomalies, f.limit)
                      [] f.query = "get_aggregated_metrics" ->
                           AggregatedMetrics(raw_data_buffer, edge_devices,
                                             f.q_sensor_type, f.q_location, now)
           aggregated == IF /\ f.query = "get_aggregated_metrics"
                            /\ f.q_sensor_type # NONE
                            /\ Truthy(f.q_location)
                         THEN aggregate_data(raw_data_buffer, f.q_sensor_type[1],
                                             f.q_location[1], "1min", now)
                         ELSE NONE
       IN  /\ frame' = [frame EXCEPT ![t].result = Some(value)]
           /\ aggregated_data' =
                  IF aggregated = NONE THEN aggregated_data
                  ELSE LET agg_key == AggKey(f.q_sensor_type[1], f.q_location[1], "1min")
                           old == IF Has(aggregated_data, agg_key)
                                  THEN Get(aggregated_data, agg_key) ELSE <<>>
                       IN  Put(aggregated_data, agg_key, Append(old, aggregated[1]))
    /\ pc' = [pc EXCEPT ![t] = "release"]
    /\ UNCHANGED <<raw_data_buffer, edge_devices, anomalies, aggregation_lock, now, uuid_count,
                   connected, command_worker, emitted, returned, ops, advances>>

\* The body of a query under the lock: the value it returns.
QueryBody(t) ==
    /\ pc[t] = "query_body"
    /\ LET f == frame[t]
           value == CASE f.query = "get_device_status" -> DeviceStatusList(edge_devices)
                      [] f.query = "get_recent_anomalies" -> RecentAnomalies(anomalies, f.limit)
                      [] f.query = "get_aggregated_metrics" ->
                           AggregatedMetrics(raw_data_buffer, edge_devices,
                                             f.q_sensor_type, f.q_location, now)
       IN  frame' = [frame EXCEPT ![t].result = Some(value)]
    /\ pc' = [pc EXCEPT ![t] = "release"]
    /\ UNCHANGED <<shared, aggregation_lock, now, uuid_count, connected, command_worker, emitted,
                   returned, ops, advances>>

(* ------------------------- environment steps ---------------------------- *)

\* GreenhouseDesktop.setup_edge_aggregator connects the three signals to the
\* window's slots; it runs on the GUI thread between two calls.
setup_edge_aggregator ==
    /\ ~connected
    /\ pc[GuiThread] = "idle"
    /\ connected' = TRUE
    /\ UNCHANGED <<shared, aggregation_lock, now, uuid_count, emitted, returned, pc, frame, ops,
                   advances, command_worker>>

\* Time passes.
Advance(d) ==
    /\ advances < MaxAdvances
    /\ now' = now + d
    /\ advances' = advances + 1
    /\ UNCHANGED <<shared, aggregation_lock, uuid_count, connected, command_worker, emitted,
                   returned, pc, frame, ops>>

\* A step of a call already under way.
Step(t) ==
    \/ AcquireLock(t)
    \/ ReleaseLock(t)
    \/ RegBody(t)
    \/ UpdCheck(t)
    \/ UpdLastSeen(t)
    \/ UpdStatus(t)
    \/ UpdBattery(t)
    \/ UpdEmit(t)
    \/ AddCheck(t)
    \/ AddCreate(t)
    \/ AddAppend(t)
    \/ AddAnomaly(t)
    \/ TickKeys(t)
    \/ TickKey(t)
    \/ TickWindow(t)
    \/ TickDetect(t)
    \/ TickAnomaly(t)
    \/ CleanupBody(t)
    \/ QueryBody(t)

(* ------------------------------ inputs ---------------------------------- *)

\* The quality 1.0 (SensorReading.quality runs from 0.0 to 1.0), in sixteenths.
QualityOne == 16

DeviceIds == {"d1", "d2"}

Locations == {<<"a">>, <<"north", "wing">>}

Statuses == {"online", "offline"}

BatteryLevels == {NONE, Some(40)}

Capabilities == {TEMPERATURE, SOIL_PH}

\* <<sensor type, value in tenths>>: inside the range, on a bound, outside it
\* near and far from the midpoint.
ReadingSamples ==
    {<<TEMPERATURE, 250>>, <<TEMPERATURE, 350>>, <<TEMPERATURE, 500>>, <<HUMIDITY, 550>>,
     <<SOIL_PH, 50>>, <<SOIL_PH, 165>>, <<SOIL_PH, 166>>}

\* Seconds the clock may advance by in one step.
ClockSteps == {60, 3600}

Reading(sample, device_id, location, quality, battery_level, timestamp) ==
    [device_id |-> device_id, sensor_type |-> sample[1], value |-> sample[2],
     timestamp |-> timestamp, location |-> location, quality |-> quality,
     battery_level |-> battery_level, signal_strength |-> NONE]

\* Time passes between two calls.
IdleAdvance(d) == (\A t \in Threads : pc[t] = "idle") /\ Advance(d)

(* --------------------------- specifications ----------------------------- *)

\* One caller, the GUI thread, as in the application: every operation runs
\* from a timer or a button of the window.
Next ==
    \/ CallRegister(GuiThread, "d1", "node", <<"a">>, Capabilities)
    \/ CallUpdate(GuiThread, "d1", "offline", NONE)
    \/ \E sm \in ReadingSamples :
          CallAdd(GuiThread, Reading(sm, "d1", <<"a">>, QualityOne, Some(40), now))
    \/ CallTick(GuiThread)
    \/ CallCleanup(GuiThread)
    \/ CallGetDeviceStatus(GuiThread)
    \/ Step(GuiThread)
    \/ setup_edge_aggregator
    \/ \E d \in ClockSteps : IdleAdvance(d)

Spec == Init /\ [][Next]_vars

\* The device registry alone: every device id, location, status and battery
\* level, registrations repeated.
StepRegistry(t) ==
    \/ AcquireLock(t)
    \/ ReleaseLock(t)
    \/ RegBody(t)
    \/ UpdCheck(t)
    \/ UpdLastSeen(t)
    \/ UpdStatus(t)
    \/ UpdBattery(t)
    \/ UpdEmit(t)
    \/ QueryBody(t)

NextRegistry ==
    \/ \E d \in DeviceIds, l \in Locations : CallRegister(GuiThread, d, "node", l, Capabilities)
    \/ \E d \in DeviceIds, st \in Statuses, b \in BatteryLevels : CallUpdate(GuiThread, d, st, b)
    \/ CallGetDeviceStatus(GuiThread)
    \/ StepRegistry(GuiThread)
    \/ setup_edge_aggregator
    \/ IdleAdvance(60)

SpecRegistry == Init /\ [][NextRegistry]_vars

\* Producer threads beside the GUI thread, their calls interleaved statement
\* by statement.
StepConc(t) ==
    \/ AcquireLock(t)
    \/ ReleaseLock(t)
    \/ RegBody(t)
    \/ UpdCheck(t)
    \/ UpdLastSeen(t)
    \/ UpdStatus(t)
    \/ UpdBattery(t)
    \/ UpdEmit(t)
    \/ AddCheck(t)
    \/ AddCreate(t)
    \/ AddAppend(t)
    \/ AddAnomaly(t)
    \/ TickKeys(t)
    \/ TickKey(t)
    \/ TickWindow(t)
    \/ TickDetect(t)
    \/ TickAnomaly(t)
    \/ QueryBody(t)

ConcSamples == {<<TEMPERATURE, 250>>, <<SOIL_PH, 60>>}

NextConc ==
    \E t \in Threads :
        \/ CallRegister(t, "d1", "node", <<"a">>, Capabilities)
        \/ CallUpdate(t, "d1", "offline", NONE)
        \/ \E sm \in ConcSamples : CallAdd(t, Reading(sm, "d1", <<"a">>, QualityOne, Some(40), now))
        \/ CallTick(t)
        \/ CallGetDeviceStatus(t)
        \/ StepConc(t)

SpecConc == Init /\ [][NextConc]_vars

\* The scheduler lets every thread that can take a step take one in the end:
\* the threads of SpecConc under weak fairness of each thread's steps.
SpecConcFair == SpecConc /\ \A t \in Threads : WF_vars(StepConc(t))

(* One tick over a buffer that holds humidity readings of one location,
   submitted earlier by a device that is not registered: every list of up to
   MaxReadings readings, the first of them older than five minutes. *)

\* The instant of the tick; the older readings carry the timestamp 0.
AggregateNow == 400

\* Humidity values (30.0, 35.0 and 80.0), all within the expected range.
AggregateValues == {300, 350, 800}

\* Qualities 0.0, 0.75 and 1.0
AggregateQualities == {0, 12, QualityOne}

\* The buffers drawn: values vs; quality q for every reading but the last,
\* whose quality is q_last; the first old readings old.
AggregateBuffer(vs, q, q_last, old) ==
    << <<BufferKey(HUMIDITY, <<"a">>),
         [i \in 1..Len(vs) |->
             Reading(<<HUMIDITY, vs[i]>>, "d1", <<"a">>,
                     IF i < Len(vs) THEN q ELSE q_last, NONE,
                     IF i <= old THEN 0 ELSE AggregateNow)]>> >>

InitAggregate ==
    /\ \E k \in 1..MaxReadings, old \in 0..MaxReadings :
          /\ old <= k
          /\ \E vs \in [1..k -> AggregateValues], q \in AggregateQualities,
                q_last \in AggregateQualities :
                raw_data_buffer = AggregateBuffer(vs, q, q_last, old)
    /\ aggregated_data = <<>>
    /\ edge_devices = <<>>
    /\ anomalies = <<>>
    /\ aggregation_lock = 0
    /\ now = AggregateNow
    /\ uuid_count = 0
    /\ connected = FALSE
    /\ WorkerInit
    /\ emitted = <<>>
    /\ returned = <<>>
    /\ pc = [t \in Threads |-> "idle"]
    /\ frame = [t \in Threads |-> EmptyFrame]
    /\ ops = 0
    /\ advances = 0

StepAggregate(t) ==
    \/ AcquireLock(t)
    \/ ReleaseLock(t)
    \/ TickKeys(t)
    \/ TickKey(t)
    \/ TickWindow(t)
    \/ TickDetect(t)
    \/ TickAnomaly(t)

\* The timer fires once.
NextAggregate ==
    \/ (aggregated_data = <<>> /\ CallTick(GuiThread))
    \/ StepAggregate(GuiThread)

SpecAggregate == InitAggregate /\ [][NextAggregate]_vars

(* Readings submitted on the GUI thread to a device that may be registered,
   set offline, and notified through the window's slots. *)

StepAdd(t) ==
    \/ AcquireLock(t)
    \/ ReleaseLock(t)
    \/ RegBody(t)
    \/ UpdCheck(t)
    \/ UpdLastSeen(t)
    \/ UpdStatus(t)
    \/ UpdBattery(t)
    \/ UpdEmit(t)
    \/ AddCheck(t)
    \/ AddCreate(t)
    \/ AddAppend(t)
    \/ AddAnomaly(t)
    \/ QueryBody(t)

NextAdd ==
    \/ CallRegister(GuiThread, "d1", "node", <<"a">>, Capabilities)
    \/ CallUpdate(GuiThread, "d1", "offline", NONE)
    \/ \E sm \in ReadingSamples, b \in BatteryLevels :
          CallAdd(GuiThread, Reading(sm, "d1", <<"a">>, QualityOne, b, now))
    \/ StepAdd(GuiThread)
    \/ setup_edge_aggregator

SpecAdd == Init /\ [][NextAdd]_vars

(* ------------------- a tick after earlier ticks -------------------------- *)

\* The history before the tick: up to MaxHistory readings of humidity at
\* location "a", each aggregated by a tick of its own at the instant it was
\* submitted. HistoryGap seconds (more than the longest window) lie between
\* two of them, so each of those ticks found one reading in every window.
\* The last of them lies last_gap seconds back, and a fresh reading may have
\* been submitted since.

\* The instant of the tick
HistoryNow == 20000

HistoryGap == 3700

\* The value of the first reading (50.0)
HistoryBase == 500

\* By how much a reading differs from the reading before it
HistorySteps == {-10, 0, 10}

\* The seconds between the last earlier tick and this one
LastGaps == {0, 120, HistoryGap}

\* By how much the fresh reading differs from the last one
FreshSteps == {-10, 0, 10, 100, 110, 300}

\* The value of reading i when reading j + 1 differs from reading j by ds[j]
RECURSIVE HistoryValue(_, _)
HistoryValue(ds, i) == IF i = 1 THEN HistoryBase ELSE HistoryValue(ds, i - 1) + ds[i - 1]

\* The instant of reading i of h
HistoryInstant(i, h, last_gap) == HistoryNow - last_gap - (h - i) * HistoryGap

\* The h readings, submitted in order
HistoryReadings(ds, h, last_gap) ==
    [i \in 1..h |-> Reading(<<HUMIDITY, HistoryValue(ds, i)>>, "d1", <<"a">>, QualityOne, NONE,
                            HistoryInstant(i, h, last_gap))]

\* The aggregate the tick at the instant of reading i appended for a window:
\* the buffer held the readings up to i.
PastAggregate(readings, window_name, i) ==
    aggregate_data(<< <<BufferKey(HUMIDITY, <<"a">>), SubSeq(readings, 1, i)>> >>,
                   HUMIDITY, <<"a">>, window_name, readings[i].timestamp)[1]

\* The history of a window after the ticks at the instants of readings 1..i
PastAggregates(readings, window_name, i) ==
    [j \in 1..i |-> PastAggregate(readings, window_name, j)]

\* aggregated_data after those ticks
PastHistory(readings, i) ==
    IF i = 0 THEN <<>>
    ELSE [wi \in 1..Len(aggregation_windows) |->
             <<AggKey(HUMIDITY, <<"a">>, aggregation_windows[wi][1]),
               PastAggregates(readings, aggregation_windows[wi][1], i)>>]

\* aggregated_data as it was after the first i of the ticks that made history
HistoryUpTo(history, i) ==
    [wi \in 1..Len(history) |-> <<history[wi][1], SubSeq(history[wi][2], 1, i)>>]

\* The anomaly infos of the first n (tick, window) pairs, each with its
\* aggregate, in the order detect_advanced_anomalies found them.
RECURSIVE PastInfos(_, _)
PastInfos(history, n) ==
    IF n = 0 THEN <<>>
    ELSE LET i == ((n - 1) \div Len(aggregation_windows)) + 1
             wi == ((n - 1) % Len(aggregation_windows)) + 1
         IN  PastInfos(history, n - 1)
                 \o [j \in 1..Len(AdvancedAnomalyInfos(HistoryUpTo(history, i),
                                                       history[wi][2][i])) |->
                        [agg |-> history[wi][2][i],
                         info |-> AdvancedAnomalyInfos(HistoryUpTo(history, i),
                                                       history[wi][2][i])[j]]]

\* self.anomalies after the h ticks that made history
PastAnomalies(history, h) ==
    [j \in 1..Len(PastInfos(history, h * Len(aggregation_windows))) |->
        LET found == PastInfos(history, h * Len(aggregation_windows))[j]
        IN  AdvancedAnomaly(found.agg, found.info, j, found.agg.timestamp)]

InitHistory ==
    /\ \E h \in 0..MaxHistory, last_gap \in LastGaps, fresh \in {<<>>} \cup {<<d>> : d \in FreshSteps} :
       \E ds \in [1..(IF h = 0 THEN 0 ELSE h - 1) -> HistorySteps] :
       \E readings \in {HistoryReadings(ds, h, last_gap)} :
       \E history \in {PastHistory(readings, h)} :
       \E past \in {PastAnomalies(history, h)} :
          LET last == IF h = 0 THEN HistoryBase ELSE readings[h].value
              submitted ==
                  IF fresh = <<>> THEN readings
                  ELSE Append(readings,
                              Reading(<<HUMIDITY, last + fresh[1]>>, "d1", <<"a">>, QualityOne,
                                      NONE, HistoryNow))
          IN  /\ (h = 0 => last_gap = HistoryGap)
              /\ raw_data_buffer =
                     (IF submitted = <<>> THEN <<>>
                      ELSE << <<BufferKey(HUMIDITY, <<"a">>), submitted>> >>)
              /\ aggregated_data = history
              /\ anomalies = past
              /\ uuid_count = Len(past)
    /\ edge_devices = <<>>
    /\ aggregation_lock = 0
    /\ now = HistoryNow
    /\ connected = FALSE
    /\ WorkerInit
    /\ emitted = <<>>
    /\ returned = <<>>
    /\ pc = [t \in Threads |-> "idle"]
    /\ frame = [t \in Threads |-> EmptyFrame]
    /\ ops = 0
    /\ advances = 0

\* The timer fires once.
NextHistory ==
    \/ (ops = 0 /\ CallTick(GuiThread))
    \/ StepAggregate(GuiThread)

SpecHistory == InitHistory /\ [][NextHistory]_vars

(* ----------------------- cleanup of old data ----------------------------- *)

\* The state cleanup_old_data finds: readings of humidity at "a" that were
\* aggregated about a day ago, each by a tick at its instant; readings of the
\* same key with drawn timestamps; out-of-range readings of temperature at
\* "b", each with the anomaly the immediate check recorded for it.

\* The instant of the cleanup
CleanupNow == 100000

\* The seconds a drawn reading lies back: a minute ahead, now, and around the
\* 2 hours of the raw buffer.
RawAges == {-60, 0, RawRetention - 1, RawRetention, RawRetention + 1}

\* The seconds a drawn aggregate lies back: around the 24 hours of the
\* aggregate history.
AggAges == {AggRetention - 1, AggRetention, AggRetention + 1}

\* How many anomalies the history holds: none, or about the limit.
AnomalyCounts == {0, MaxAnomalies - 1, MaxAnomalies, MaxAnomalies + 1, MaxAnomalies + 2}

\* The seconds the first rising anomaly lies back; the anomaly 50 after it
\* lies 2 hours back.
RisingStart == RawRetention + 50

\* The lists of at most MaxKept ages
AgeLists(ages) == UNION {[1..k -> ages] : k \in 0..MaxKept}

CleanupReading(age) ==
    Reading(<<HUMIDITY, HistoryBase>>, "d1", <<"a">>, QualityOne, NONE, CleanupNow - age)

\* Out-of-range reading j (40.0 degrees), submitted at the instant `time`
HotReading(time) == Reading(<<TEMPERATURE, 400>>, "d2", <<"b">>, QualityOne, NONE, time)

\* The instant of anomaly j: all at one instant, or one second apart.
AnomalyInstant(order, j) ==
    IF order = "equal" THEN CleanupNow - 100 ELSE CleanupNow - RisingStart + j

\* The anomalies of the first n out-of-range readings, as appended.
AnomaliesAppended(order, n) ==
    [j \in 1..n |-> ImmediateAnomaly(HotReading(AnomalyInstant(order, j)), j,
                                     AnomalyInstant(order, j))]

\* self.anomalies: as appended, or ("trimmed") as an earlier cleanup left the
\* first MaxAnomalies + 1 of them, with the later ones appended to that.
AnomaliesDrawn(order, n) ==
    IF order = "trimmed"
    THEN PruneAnomalies(AnomaliesAppended("rising", MaxAnomalies + 1))
             \o SubSeq(AnomaliesAppended("rising", n + 1), MaxAnomalies + 2, n + 1)
    ELSE AnomaliesAppended(order, n)

\* The readings submitted for the anomalies drawn
HotReadings(order, n) ==
    LET m == IF order = "trimmed" THEN n + 1 ELSE n
    IN  [j \in 1..m |-> HotReading(AnomalyInstant(order, j))]

InitCleanup ==
    /\ \E agg_ages \in AgeLists(AggAges), raw_ages \in AgeLists(RawAges),
          n \in AnomalyCounts, order \in {"equal", "rising", "trimmed"} :
       \E aggregated \in {[i \in 1..Len(agg_ages) |-> CleanupReading(agg_ages[i])]} :
       \E humidity \in {aggregated \o [i \in 1..Len(raw_ages) |-> CleanupReading(raw_ages[i])]} :
       \E hot \in {HotReadings(order, n)} :
          /\ \A i \in 1..(Len(agg_ages) - 1) : agg_ages[i] >= agg_ages[i + 1]
          /\ n = 0 => order = "equal"
          /\ n > 0 => (agg_ages = <<>> /\ raw_ages = <<RawRetention>>)
          /\ order = "trimmed" => n >= MaxAnomalies
          /\ raw_data_buffer =
                 (IF humidity = <<>> THEN <<>>
                  ELSE << <<BufferKey(HUMIDITY, <<"a">>), humidity>> >>)
                 \o (IF hot = <<>> THEN <<>>
                     ELSE << <<BufferKey(TEMPERATURE, <<"b">>), hot>> >>)
          /\ aggregated_data = PastHistory(aggregated, Len(aggregated))
          /\ anomalies = AnomaliesDrawn(order, n)
          /\ uuid_count = Len(hot)
    /\ edge_devices = <<>>
    /\ aggregation_lock = 0
    /\ now = CleanupNow
    /\ connected = FALSE
    /\ WorkerInit
    /\ emitted = <<>>
    /\ returned = <<>>
    /\ pc = [t \in Threads |-> "idle"]
    /\ frame = [t \in Threads |-> EmptyFrame]
    /\ ops = 0
    /\ advances = 0

StepCleanup(t) ==
    \/ CallCleanup(t)
    \/ AcquireLock(t)
    \/ CleanupBody(t)
    \/ ReleaseLock(t)

NextCleanup == StepCleanup(GuiThread)

SpecCleanup == InitCleanup /\ [][NextCleanup]_vars

(* ------------------- the first cleanup of a history --------------------- *)

\* The stores drawn for the cleanup with the anomaly history as the appends
\* alone leave it, no cleanup having trimmed it: oldest first.
InitAppended ==
    /\ InitCleanup
    /\ \A i \in 1..(Len(anomalies) - 1) : anomalies[i].timestamp <= anomalies[i + 1].timestamp

SpecAppended == InitAppended /\ [][NextCleanup]_vars

(* ------------------- queries of the anomaly history --------------------- *)

\* get_recent_anomalies and cleanup_old_data over the anomaly histories drawn
\* for the cleanup; the other stores hold what the anomalies came from.

\* The limits asked for: none, one, the window's 20, more than there are.
QueryLimits == {0, 1, 20, MaxAnomalies + 50}

InitRecent ==
    /\ InitCleanup
    /\ aggregated_data = <<>>
    /\ anomalies = <<>> => raw_data_buffer = <<>>

StepRecent(t) ==
    \/ AcquireLock(t)
    \/ ReleaseLock(t)
    \/ QueryBody(t)
    \/ CleanupBody(t)

NextRecent ==
    \/ \E limit \in QueryLimits : CallGetRecentAnomalies(GuiThread, limit)
    \/ CallCleanup(GuiThread)
    \/ StepRecent(GuiThread)

SpecRecent == InitRecent /\ [][NextRecent]_vars

(* ------------------------ queries of the metrics ------------------------ *)

\* Readings of two sensor types at two locations, one of them with a
\* registered device, and get_aggregated_metrics called by the window.

MetricsSamples == {<<TEMPERATURE, 250>>, <<HUMIDITY, 550>>}

\* <<sensor_type, location>> arguments: none, the sensor type the window
\* passes, a location.
MetricsQueries ==
    {<<NONE, NONE>>, <<Some(TEMPERATURE), NONE>>, <<NONE, Some(<<"north", "wing">>)>>}

\* Seconds between two calls: within every window, within the longest only.
MetricsSteps == {120, 1800}

NextMetrics ==
    \/ CallRegister(GuiThread, "d1", "node", <<"a">>, Capabilities)
    \/ \E sm \in MetricsSamples, l \in Locations :
          CallAdd(GuiThread, Reading(sm, "d1", l, QualityOne, Some(40), now))
    \/ \E q \in MetricsQueries : CallGetAggregatedMetrics(GuiThread, q[1], q[2])
    \/ StepAdd(GuiThread)
    \/ \E d \in MetricsSteps : IdleAdvance(d)

SpecMetrics == Init /\ [][NextMetrics]_vars

(* ------------------- the clock during a tick ----------------------------- *)

\* Readings submitted and ticks run on the GUI thread while the clock goes on
\* at any point, between two statements of a tick too.

\* Seconds by which the clock goes on in one step.
TickClockSteps == {1, 60}

ClockSamples == {<<TEMPERATURE, 250>>, <<HUMIDITY, 550>>}

StepClock(t) ==
    \/ AcquireLock(t)
    \/ ReleaseLock(t)
    \/ UpdCheck(t)
    \/ AddCheck(t)
    \/ AddCreate(t)
    \/ AddAppend(t)
    \/ AddAnomaly(t)
    \/ TickKeys(t)
    \/ TickKey(t)
    \/ TickWindow(t)
    \/ TickDetect(t)
    \/ TickAnomaly(t)

NextClock ==
    \/ \E sm \in ClockSamples :
          CallAdd(GuiThread, Reading(sm, "d1", <<"a">>, QualityOne, NONE, now))
    \/ CallTick(GuiThread)
    \/ StepClock(GuiThread)
    \/ \E d \in TickClockSteps : Advance(d)

SpecClock == Init /\ [][NextClock]_vars

(* ------------------- timestamps set by the producers --------------------- *)

\* SensorReading.timestamp is set by the producer: seconds by which it lies
\* before or after the aggregator's clock at the submission.
StampOffsets == {-120, 0, 30}

StampSamples == {<<HUMIDITY, 550>>, <<HUMIDITY, 600>>}

NextStamps ==
    \/ \E sm \in StampSamples, o \in StampOffsets :
          CallAdd(GuiThread, Reading(sm, "d1", <<"a">>, QualityOne, NONE, now + o))
    \/ CallTick(GuiThread)
    \/ StepClock(GuiThread)
    \/ IdleAdvance(60)

SpecStamps == Init /\ [][NextStamps]_vars

(* ------------------- ticks and cleanups of one history ------------------- *)

\* The stores drawn for the cleanup, without anomalies: the readings of the
\* aggregates about 24 hours old and one reading submitted just now. Ticks
\* and cleanups follow in any order, and the clock goes on between them.
InitOrder ==
    /\ InitCleanup
    /\ anomalies = <<>>
    /\ Has(raw_data_buffer, BufferKey(HUMIDITY, <<"a">>))
    /\ LET readings == Get(raw_data_buffer, BufferKey(HUMIDITY, <<"a">>)) IN
       \A i \in 1..Len(readings) :
           IF i = Len(readings)
           THEN readings[i].timestamp = CleanupNow
           ELSE readings[i].timestamp < CleanupNow - RawRetention - 1

StepOrder(t) ==
    \/ AcquireLock(t)
    \/ ReleaseLock(t)
    \/ TickKeys(t)
    \/ TickKey(t)
    \/ TickWindow(t)
    \/ TickDetect(t)
    \/ TickAnomaly(t)
    \/ CleanupBody(t)

NextOrder ==
    \/ CallTick(GuiThread)
    \/ CallCleanup(GuiThread)
    \/ StepOrder(GuiThread)
    \/ \E d \in TickClockSteps : IdleAdvance(d)

SpecOrder == InitOrder /\ [][NextOrder]_vars

(* ------------------- the keys of the raw buffer -------------------------- *)

\* Two readings of any sensor types submitted at locations whose names hold
\* a '_' or repeat a part of a sensor type's value.
KeyLocations == {<<"a">>, <<"moisture", "a">>, <<"ph">>}

\* <<sensor type, the middle of its expected range>>
KeySamples ==
    {<<st, (Get(expected_ranges, st)[1] + Get(expected_ranges, st)[2]) \div 2>> : st \in SensorType}

StepKeys(t) ==
    \/ AcquireLock(t)
    \/ ReleaseLock(t)
    \/ UpdCheck(t)
    \/ AddCheck(t)
    \/ AddCreate(t)
    \/ AddAppend(t)
    \/ AddAnomaly(t)

NextKeys ==
    \/ \E sm \in KeySamples, l \in KeyLocations :
          ops < 2 /\ CallAdd(GuiThread, Reading(sm, "d1", l, QualityOne, NONE, now))
    \/ StepKeys(GuiThread)

SpecKeys == Init /\ [][NextKeys]_vars

(* ------------------- readings of an unknown device ----------------------- *)

\* Device d1 is registered; the readings come from d2, which never is.

\* <<sensor type, value>>: inside the expected range and outside it
UnknownSamples == {<<TEMPERATURE, 250>>, <<TEMPERATURE, 500>>}

StepUnknown(t) ==
    \/ AcquireLock(t)
    \/ ReleaseLock(t)
    \/ RegBody(t)
    \/ UpdCheck(t)
    \/ AddCheck(t)
    \/ AddCreate(t)
    \/ AddAppend(t)
    \/ AddAnomaly(t)

NextUnknown ==
    \/ CallRegister(GuiThread, "d1", "node", <<"a">>, Capabilities)
    \/ \E sm \in UnknownSamples, b \in BatteryLevels :
          CallAdd(GuiThread, Reading(sm, "d2", <<"a">>, QualityOne, b, now))
    \/ StepUnknown(GuiThread)

SpecUnknown == Init /\ [][NextUnknown]_vars

(* ------------------------- ticks that follow ticks ----------------------- *)

\* Device d1 is registered and has submitted one humidity reading. Ticks,
\* further readings and cleanups follow, and the clock advances between them.

\* Seconds the clock advances by between two calls: to the edge of the
\* smallest window, past the middle ones, to the end of the retention.
RepeatSteps == {60, 1000, 7200}

RepeatSamples == {<<HUMIDITY, 600>>}

InitRepeat ==
    /\ raw_data_buffer =
           << <<BufferKey(HUMIDITY, <<"a">>),
                <<Reading(<<HUMIDITY, 550>>, "d1", <<"a">>, QualityOne, NONE, 0)>> >> >>
    /\ aggregated_data = <<>>
    /\ edge_devices = StoreDevice(<<>>, "d1", NewDevice("node", <<"a">>, Capabilities, 0))
    /\ anomalies = <<>>
    /\ aggregation_lock = 0
    /\ now = 0
    /\ uuid_count = 0
    /\ connected = FALSE
    /\ WorkerInit
    /\ emitted = <<>>
    /\ returned = <<>>
    /\ pc = [t \in Threads |-> "idle"]
    /\ frame = [t \in Threads |-> EmptyFrame]
    /\ ops = 0
    /\ advances = 0

StepRepeat(t) ==
    \/ AcquireLock(t)
    \/ ReleaseLock(t)
    \/ UpdCheck(t)
    \/ UpdLastSeen(t)
    \/ UpdStatus(t)
    \/ UpdBattery(t)
    \/ UpdEmit(t)
    \/ AddCheck(t)
    \/ AddCreate(t)
    \/ AddAppend(t)
    \/ AddAnomaly(t)
    \/ TickKeys(t)
    \/ TickKey(t)
    \/ TickWindow(t)
    \/ TickDetect(t)
    \/ TickAnomaly(t)
    \/ CleanupBody(t)

NextRepeat ==
    \/ CallTick(GuiThread)
    \/ CallCleanup(GuiThread)
    \/ \E sm \in RepeatSamples :
          CallAdd(GuiThread, Reading(sm, "d1", <<"a">>, QualityOne, NONE, now))
    \/ StepRepeat(GuiThread)
    \/ \E d \in RepeatSteps : IdleAdvance(d)

SpecRepeat == InitRepeat /\ [][NextRepeat]_vars

(* ------------------------- the three queries ----------------------------- *)

\* Device d1 is registered and has submitted one humidity reading. Readings
\* inside and outside the expected range, ticks and the three queries follow.

QuerySamples == {<<HUMIDITY, 550>>, <<HUMIDITY, 950>>}

\* <<sensor_type, location>> arguments of get_aggregated_metrics
QueryArguments == {<<NONE, NONE>>, <<Some(HUMIDITY), Some(<<"a">>)>>}

\* limit arguments of get_recent_anomalies: the default, the window's
QueryLimitArguments == {10, 20}

StepQueries(t) ==
    \/ AcquireLock(t)
    \/ ReleaseLock(t)
    \/ UpdCheck(t)
    \/ UpdLastSeen(t)
    \/ UpdStatus(t)
    \/ UpdBattery(t)
    \/ UpdEmit(t)
    \/ AddCheck(t)
    \/ AddAppend(t)
    \/ AddAnomaly(t)
    \/ TickKeys(t)
    \/ TickKey(t)
    \/ TickWindow(t)
    \/ TickDetect(t)
    \/ TickAnomaly(t)
    \/ QueryBody(t)

NextQueries ==
    \/ \E sm \in QuerySamples :
          CallAdd(GuiThread, Reading(sm, "d1", <<"a">>, QualityOne, NONE, now))
    \/ CallTick(GuiThread)
    \/ CallGetDeviceStatus(GuiThread)
    \/ \E limit \in QueryLimitArguments : CallGetRecentAnomalies(GuiThread, limit)
    \/ \E q \in QueryArguments : CallGetAggregatedMetrics(GuiThread, q[1], q[2])
    \/ StepQueries(GuiThread)
    \/ IdleAdvance(60)

SpecQueries == InitRepeat /\ [][NextQueries]_vars

(* ------------------- a tick that is held up ------------------------------ *)

\* Device d1 is registered and has submitted one humidity reading. Readings
\* and ticks follow; the clock goes on at any point, between two statements
\* of a tick too, by a second or, when the process is held up (the machine
\* suspended, the wall clock set), by several minutes.
NestedSteps == {1, 400}

StepNested(t) ==
    \/ AcquireLock(t)
    \/ ReleaseLock(t)
    \/ UpdCheck(t)
    \/ UpdLastSeen(t)
    \/ UpdStatus(t)
    \/ UpdBattery(t)
    \/ UpdEmit(t)
    \/ AddCheck(t)
    \/ AddAppend(t)
    \/ AddAnomaly(t)
    \/ TickKeys(t)
    \/ TickKey(t)
    \/ TickWindow(t)
    \/ TickDetect(t)
    \/ TickAnomaly(t)

NextNested ==
    \/ \E sm \in RepeatSamples :
          CallAdd(GuiThread, Reading(sm, "d1", <<"a">>, QualityOne, NONE, now))
    \/ CallTick(GuiThread)
    \/ StepNested(GuiThread)
    \/ \E d \in NestedSteps : Advance(d)

SpecNested == InitRepeat /\ [][NextNested]_vars

(* ------------------- aggregates of equal values -------------------------- *)

\* Temperature readings below, at and above zero degrees, one or two of the
\* same value among them, and ticks over them.

\* <<sensor type, value>>: -5.0, 0.0 and 25.0 degrees
FlatSamples == {<<TEMPERATURE, -50>>, <<TEMPERATURE, 0>>, <<TEMPERATURE, 250>>}

NextFlat ==
    \/ \E sm \in FlatSamples :
          CallAdd(GuiThread, Reading(sm, "d1", <<"a">>, QualityOne, NONE, now))
    \/ CallTick(GuiThread)
    \/ StepClock(GuiThread)

SpecFlat == Init /\ [][NextFlat]_vars

(* ---------------------------- CommandWorker ------------------------------ *)

\* How many messages the backend publishes on command_responses.
MaxMessages == 2

\* Message bodies: a response object, an object without commandId, JSON that
\* is no object, text that is no JSON, bytes that are no UTF-8.
ResponseBody == "{\"commandId\": \"c1\", \"output\": \"ok\"}"

EmptyObjectBody == "{}"

ArrayBody == "[1]"

TextBody == "done"

BytesBody == "\\xff\\xfe"

Bodies == {ResponseBody, EmptyObjectBody, ArrayBody, TextBody, BytesBody}

\* json.loads(body.decode()) for the bodies above: the exception raised, or
\* the Python value (a dict as the list of its items).
json_loads(body) ==
    CASE body = ResponseBody ->
             [raised |-> "none", type |-> "dict",
              value |-> << <<"commandId", "c1">>, <<"output", "ok">> >>]
      [] body = EmptyObjectBody -> [raised |-> "none", type |-> "dict", value |-> <<>>]
      [] body = ArrayBody -> [raised |-> "none", type |-> "list", value |-> <<1>>]
      [] body = TextBody -> [raised |-> "JSONDecodeError", type |-> "none", value |-> <<>>]
      [] body = BytesBody -> [raised |-> "UnicodeDecodeError", type |-> "none", value |-> <<>>]

\* What lines 95-97 raise: the exception of json.loads, or AttributeError
\* when the value has no method get; "none" when they run through.
ParseError(body) ==
    LET r == json_loads(body) IN
    IF r.raised # "none" THEN r.raised
    ELSE IF r.type # "dict" THEN "AttributeError"
    ELSE "none"

\* Everything of the aggregator but the log of emit calls.
aggregator == <<shared, aggregation_lock, now, uuid_count, connected, returned, pc, frame,
                ops, advances>>

\* setup_rabbitmq with the broker reachable: connection and channel are
\* opened, connection_status(True) is emitted, the timer is started.
setup_rabbitmq ==
    /\ connection = NONE
    /\ worker_pc = "idle"
    /\ link
    /\ connection' = Some("open")
    /\ emitted' = Append(emitted, [signal |-> "connection_status", payload |-> TRUE])
    /\ consumer_timer' = TRUE
    /\ consuming' = TRUE
    /\ UNCHANGED <<aggregator, link, command_responses, fetched, settled, worker_pc,
                   worker_frame>>

\* The backend publishes a message on command_responses.
Publish(body) ==
    /\ link
    /\ Len(command_responses) + Len(fetched) < MaxMessages
    /\ command_responses' = Append(command_responses, body)
    /\ UNCHANGED <<aggregator, emitted, connection, link, fetched, settled, consumer_timer,
                   consuming, worker_pc, worker_frame>>

\* The connection to the broker is lost; every call on the channel raises
\* from now on.
LinkDrop ==
    /\ link
    /\ link' = FALSE
    /\ UNCHANGED <<aggregator, emitted, connection, command_responses, fetched, settled,
                   consumer_timer, consuming, worker_pc, worker_frame>>

\* consumer_timer times out and calls _check_for_messages:
\* if not self.connection or not self.channel: return
CheckConnection ==
    /\ worker_pc = "idle"
    /\ consumer_timer
    /\ worker_pc' = IF connection = NONE THEN "idle" ELSE "basic_get"
    /\ UNCHANGED <<aggregator, emitted, connection, link, command_responses, fetched, settled,
                   consumer_timer, consuming, worker_frame>>

\* self.channel.basic_get(queue='command_responses', auto_ack=False) and
\* `if method_frame:`
BasicGet ==
    /\ worker_pc = "basic_get"
    /\ IF ~link
       THEN /\ worker_pc' = "failed"
            /\ UNCHANGED <<command_responses, fetched, worker_frame>>
       ELSE IF command_responses = <<>>
       THEN /\ worker_pc' = "idle"
            /\ UNCHANGED <<command_responses, fetched, worker_frame>>
       ELSE /\ command_responses' = Tail(command_responses)
            /\ fetched' = Append(fetched, [delivery_tag |-> Len(fetched) + 1,
                                           body |-> Head(command_responses)])
            /\ worker_frame' = [NoLocals EXCEPT !.method_frame = Some(Len(fetched) + 1),
                                                !.body = Some(Head(command_responses))]
            /\ worker_pc' = "loads"
    /\ UNCHANGED <<aggregator, emitted, connection, link, settled, consumer_timer, consuming>>

\* response = json.loads(body.decode()); command_id = response.get(...)
Loads ==
    /\ worker_pc = "loads"
    /\ IF ParseError(worker_frame.body[1]) = "none"
       THEN /\ worker_frame' = [worker_frame EXCEPT
                                   !.response = Some(json_loads(worker_frame.body[1]).value)]
            /\ worker_pc' = "basic_ack"
       ELSE /\ worker_pc' = "basic_nack"
            /\ UNCHANGED worker_frame
    /\ UNCHANGED <<aggregator, emitted, connection, link, command_responses, fetched, settled,
                   consumer_timer, consuming>>

\* self.channel.basic_ack(method_frame.delivery_tag); on a lost connection it
\* raises and `except Exception` takes over.
BasicAck ==
    /\ worker_pc = "basic_ack"
    /\ IF link
       THEN /\ settled' = Append(settled, [delivery_tag |-> worker_frame.method_frame[1],
                                           method |-> "basic_ack", requeue |-> FALSE])
            /\ worker_pc' = "emit"
       ELSE /\ worker_pc' = "basic_nack"
            /\ UNCHANGED settled
    /\ UNCHANGED <<aggregator, emitted, connection, link, command_responses, fetched,
                   consumer_timer, consuming, worker_frame>>

\* A faulty variant of EmitResponse, kept to show what C39 rules out: the
\* emit raises after the acknowledgement and `except Exception` takes over.
EmitResponseRaising ==
    /\ worker_pc = "emit"
    /\ worker_pc' = "basic_nack"
    /\ UNCHANGED <<aggregator, emitted, connection, link, command_responses, fetched, settled,
                   consumer_timer, consuming, worker_frame>>

\* self.response_received.emit(response)
EmitResponse ==
    /\ worker_pc = "emit"
    /\ emitted' = Append(emitted, [signal |-> "response_received",
                                   payload |-> worker_frame.response[1]])
    /\ worker_pc' = "idle"
    /\ worker_frame' = NoLocals
    /\ UNCHANGED <<aggregator, connection, link, command_responses, fetched, settled,
                   consumer_timer, consuming>>

\* self.channel.basic_nack(method_frame.delivery_tag, requeue=False) of either
\* handler; on a lost connection it raises out of the handler.
BasicNack ==
    /\ worker_pc = "basic_nack"
    /\ IF link
       THEN /\ settled' = Append(settled, [delivery_tag |-> worker_frame.method_frame[1],
                                           method |-> "basic_nack", requeue |-> FALSE])
            /\ worker_pc' = "idle"
            /\ worker_frame' = NoLocals
       ELSE /\ worker_pc' = "failed"
            /\ UNCHANGED <<settled, worker_frame>>
    /\ UNCHANGED <<aggregator, emitted, connection, link, command_responses, fetched,
                   consumer_timer, consuming>>

\* The outer `except Exception`: connection_status(False), the timer stops.
CheckFailed ==
    /\ worker_pc = "failed"
    /\ emitted' = Append(emitted, [signal |-> "connection_status", payload |-> FALSE])
    /\ consuming' = FALSE
    /\ consumer_timer' = FALSE
    /\ worker_pc' = "idle"
    /\ worker_frame' = NoLocals
    /\ UNCHANGED <<aggregator, connection, link, command_responses, fetched, settled>>

_check_for_messages ==
    \/ CheckConnection
    \/ BasicGet
    \/ Loads
    \/ BasicAck
    \/ EmitResponse
    \/ BasicNack
    \/ CheckFailed

NextWorker ==
    \/ setup_rabbitmq
    \/ \E body \in Bodies : Publish(body)
    \/ LinkDrop
    \/ _check_for_messages

SpecWorker == Init /\ [][NextWorker]_vars

(* ------------------------------ properties ------------------------------ *)

Windows == {aggregation_windows[i][1] : i \in 1..Len(aggregation_windows)}

\* t stands at the end of the `with` block of the public operation op.
AtEndOf(t, op) == pc[t] = "release" /\ frame[t].op = op /\ frame[t].exit = "idle"

\* The calls of add_sensor_reading for buffer key k that have returned.
ReturnedAdds(k) ==
    {i \in 1..Len(returned) :
        /\ returned[i].op = "add_sensor_reading"
        /\ returned[i].error = "none"
        /\ ReadingKey(returned[i].reading[1]) = k}

\* The readings of sensor type st at location loc that lie in a window of
\* `seconds` seconds at the present instant.
InWindow(st, loc, seconds) ==
    IF Has(raw_data_buffer, BufferKey(st, loc))
    THEN SelectSeq(Get(raw_data_buffer, BufferKey(st, loc)),
                   LAMBDA r : now - seconds <= r.timestamp /\ r.timestamp <= now)
    ELSE <<>>

HistoryOf(history, st, loc, w) ==
    IF Has(history, AggKey(st, loc, w)) THEN Get(history, AggKey(st, loc, w)) ELSE <<>>

\* C1 (as claimed): when a tick ends that followed N returned calls of
\* add_sensor_reading for one (sensor_type, location) key, all N readings
\* lying in every window, the tick has produced for that key and every window
\* an aggregate whose count is N.
C1_TickCountsSubmitted ==
    \A t \in Threads :
        AtEndOf(t, "run_periodic_aggregation") =>
            \A st \in SensorType, loc \in Locations :
                LET n == Cardinality(ReturnedAdds(BufferKey(st, loc))) IN
                n > 0 =>
                    \A w \in Windows :
                        LET old == HistoryOf(frame[t].before[1].aggregated_data, st, loc, w)
                            new == HistoryOf(aggregated_data, st, loc, w)
                        IN  /\ Len(new) = Len(old) + 1
                            /\ new[Len(new)].count = n

\* C2 (as claimed): when a tick ends, for every (sensor_type, location) key in
\* the raw buffer, for each of the six sensor types, and every window that
\* holds at least one buffered reading, exactly one new aggregate with that
\* sensor_type and location stands at the end of the history of
\* (sensor_type, location, window).
C2_TickAggregatesEveryKey ==
    \A t \in Threads :
        AtEndOf(t, "run_periodic_aggregation") =>
            \A st \in SensorType, loc \in Locations, i \in 1..Len(aggregation_windows) :
                InWindow(st, loc, aggregation_windows[i][2]) # <<>> =>
                    LET w == aggregation_windows[i][1]
                        old == HistoryOf(frame[t].before[1].aggregated_data, st, loc, w)
                        new == HistoryOf(aggregated_data, st, loc, w)
                    IN  /\ Len(new) = Len(old) + 1
                        /\ SubSeq(new, 1, Len(old)) = old
                        /\ new[Len(new)].sensor_type = st
                        /\ new[Len(new)].location = loc

\* C3 (as claimed): no public operation ends by raising: neither a call under
\* way nor a call that is over carries an exception.
C3_NoFault ==
    /\ \A t \in Threads : frame[t].error = "none"
    /\ \A i \in 1..Len(returned) : returned[i].error = "none"

\* The positions of update_device_status at which it is inside its
\* read-modify-write of the device entry.
DeviceWritePcs == {"upd_last_seen", "upd_status", "upd_battery"}

\* C4 (as claimed): a directly called update_device_status is never inside its
\* read-modify-write of the device table while another thread holds
\* aggregation_lock in register_edge_device, add_sensor_reading or
\* get_device_status.
C4_UpdateExcludesLockHolders ==
    \A t \in Threads, u \in Threads :
        (/\ t # u
         /\ aggregation_lock = u
         /\ frame[u].op \in {"register_edge_device", "add_sensor_reading", "get_device_status"})
        => ~(frame[t].op = "update_device_status" /\ pc[t] \in DeviceWritePcs)

\* C5 (as claimed): no caller waits for aggregation_lock for ever; a thread
\* that waits for the lock it holds itself can never get it.
C5_NoSelfWait ==
    \A t \in Threads : ~(pc[t] = "acquire" /\ aggregation_lock = t)

\* The public call of add_sensor_reading of thread t is under way.
Adding(t) == frame[t].op = "add_sensor_reading" /\ pc[t] # "idle"

\* C6: the immediate check of add_sensor_reading appends exactly one
\* out_of_range anomaly, for the reading's sensor type, location and value,
\* when the value is below lo or above hi of the expected range of its sensor
\* type, and leaves the anomaly history as it is when lo <= value <= hi; no
\* other step of add_sensor_reading touches the anomaly history.
C6_ImmediateRule ==
    [][\A t \in Threads :
        (Adding(t) /\ pc'[t] # pc[t]) =>
            LET r == frame[t].reading[1]
                lo == Get(expected_ranges, r.sensor_type)[1]
                hi == Get(expected_ranges, r.sensor_type)[2]
            IN  IF pc[t] = "add_anomaly" /\ (r.value < lo \/ r.value > hi)
                THEN /\ Len(anomalies') = Len(anomalies) + 1
                     /\ SubSeq(anomalies', 1, Len(anomalies)) = anomalies
                     /\ anomalies'[Len(anomalies')].anomaly_type = "out_of_range"
                     /\ anomalies'[Len(anomalies')].sensor_type = r.sensor_type
                     /\ anomalies'[Len(anomalies')].location = r.location
                     /\ anomalies'[Len(anomalies')].value = FracOfInt(r.value)
                ELSE anomalies' = anomalies]_vars

\* A reading has been submitted by a call that is over.
Submitted(sensor_type, value) ==
    \E i \in 1..Len(returned) :
        /\ returned[i].op = "add_sensor_reading"
        /\ returned[i].error = "none"
        /\ returned[i].reading[1].sensor_type = sensor_type
        /\ returned[i].reading[1].value = value

\* C6 witness: a temperature of 35.0 (the upper bound) and one of 50.0 have
\* been submitted and the anomaly history holds one anomaly, for the 50.0.
C6_Witness ==
    /\ Submitted(TEMPERATURE, 350)
    /\ Submitted(TEMPERATURE, 500)
    /\ Len(anomalies) = 1
    /\ anomalies[1].anomaly_type = "out_of_range"
    /\ anomalies[1].value = FracOfInt(500)

\* C7: an out_of_range anomaly is critical exactly when its value lies more
\* than 10 units from the midpoint (lo+hi)/2 of its expected range, and warning
\* otherwise (values in tenths: twice the distance against 200); temperature
\* 50.0 is critical, and soil_ph out of range within 10 of 6.5 is warning.
C7_Severity ==
    \A i \in 1..Len(anomalies) :
        anomalies[i].anomaly_type = "out_of_range" =>
            LET a == anomalies[i]
                lo == a.expected_range[1]
                hi == a.expected_range[2]
                far == Abs(2 * a.value.num - (lo + hi) * a.value.den) > 200 * a.value.den
            IN  /\ a.severity = (IF far THEN "critical" ELSE "warning")
                /\ (a.sensor_type = TEMPERATURE /\ a.value = FracOfInt(500)) => a.severity = "critical"
                /\ (a.sensor_type = SOIL_PH /\ Abs(a.value.num - 65 * a.value.den) <= 100 * a.value.den)
                       => a.severity = "warning"

\* C7 witness: the history holds a critical anomaly for temperature 50.0 and a
\* warning anomaly for soil_ph 16.5, exactly 10 from the midpoint.
C7_Witness ==
    /\ \E i \in 1..Len(anomalies) :
          /\ anomalies[i].sensor_type = TEMPERATURE
          /\ anomalies[i].value = FracOfInt(500)
          /\ anomalies[i].severity = "critical"
    /\ \E i \in 1..Len(anomalies) :
          /\ anomalies[i].sensor_type = SOIL_PH
          /\ anomalies[i].value = FracOfInt(165)
          /\ anomalies[i].severity = "warning"

\* The locations device_id has been registered with, in the order of the calls.
RegisteredLocations(device_id) ==
    LET regs == SelectSeq(emitted, LAMBDA e : /\ e.signal = "device_status_changed"
                                              /\ e.payload.status = "registered"
                                              /\ e.payload.device_id = device_id)
    IN  [i \in 1..Len(regs) |-> regs[i].payload.location]

RegisteredIds == {id \in DeviceIds : RegisteredLocations(id) # <<>>}

\* C8: however often an id has been registered, the device table holds exactly
\* one entry for it, with the location of the last registration, and
\* get_device_status returns one device per registered id, so as many after a
\* second registration of an id as after the first.
C8_RegisterTwice ==
    /\ \A id \in RegisteredIds :
          /\ Cardinality({i \in 1..Len(edge_devices) : edge_devices[i][1] = id}) = 1
          /\ Get(edge_devices, id).location =
                 RegisteredLocations(id)[Len(RegisteredLocations(id))]
    /\ \A t \in Threads :
          AtEndOf(t, "get_device_status") =>
              /\ Len(frame[t].result[1]) = Cardinality(RegisteredIds)
              /\ \A id \in RegisteredIds :
                    \E i \in 1..Len(frame[t].result[1]) :
                        /\ frame[t].result[1][i].device_id = id
                        /\ frame[t].result[1][i].location =
                               RegisteredLocations(id)[Len(RegisteredLocations(id))]

\* C8 witness: d1 has been registered twice, with two locations, and
\* get_device_status is about to return a single device.
C8_Witness ==
    /\ Len(RegisteredLocations("d1")) = 2
    /\ RegisteredLocations("d1")[1] # RegisteredLocations("d1")[2]
    /\ AtEndOf(GuiThread, "get_device_status")
    /\ Len(frame[GuiThread].result[1]) = 1

\* C9: update_device_status for an id that is not in the device table changes
\* none of the four tables, emits nothing, raises nothing and returns.
C9_UnknownDeviceNoOp ==
    [][\A t \in Threads :
        (/\ frame[t].op = "update_device_status"
         /\ pc[t] = "upd_check"
         /\ ~Has(edge_devices, frame[t].device_id)
         /\ pc'[t] # pc[t])
        => /\ shared' = shared
           /\ emitted' = emitted
           /\ pc'[t] = "idle"
           /\ returned' = Append(returned, [Outcome(frame[t]) EXCEPT !.error = "none"])]_vars

\* C9 witness: a call of update_device_status is over while no device has ever
\* been registered.
C9_Witness ==
    /\ edge_devices = <<>>
    /\ emitted = <<>>
    /\ \E i \in 1..Len(returned) : returned[i].op = "update_device_status"

\* The reading t submits is the last of the list of its key.
Appended(t) ==
    LET r == frame[t].reading[1] IN
    /\ Has(raw_data_buffer, BufferKey(r.sensor_type, r.location))
    /\ Get(raw_data_buffer, BufferKey(r.sensor_type, r.location)) # <<>>
    /\ LET list == Get(raw_data_buffer, BufferKey(r.sensor_type, r.location))
       IN  list[Len(list)] = r

\* The device of the reading t submits, when registered, has been set online
\* with the reading's battery level and the notification of it is the last one.
DeviceUpdated(t) ==
    LET r == frame[t].reading[1] IN
    Has(edge_devices, r.device_id) =>
        /\ Get(edge_devices, r.device_id).status = "online"
        /\ r.battery_level # NONE =>
               Get(edge_devices, r.device_id).battery_level = r.battery_level[1]
        /\ emitted # <<>>
        /\ emitted[Len(emitted)].signal = "device_status_changed"
        /\ emitted[Len(emitted)].payload.device_id = r.device_id
        /\ emitted[Len(emitted)].payload.status = "online"

\* The reading t submits lies outside the expected range of its sensor type.
ReadingOutOfRange(t) ==
    LET r == frame[t].reading[1] IN
    \/ r.value < Get(expected_ranges, r.sensor_type)[1]
    \/ r.value > Get(expected_ranges, r.sensor_type)[2]

\* C10: add_sensor_reading appends first, then calls update_device_status,
\* then runs the immediate check, all before it returns: while the status
\* update runs the reading is already in its list and no anomaly has been
\* added; when the check starts the update is done as well; when the call is
\* about to return the reading is in the buffer and the out_of_range anomaly
\* it causes, if any, is the last of the anomaly history.
C10_AddOrder ==
    \A t \in Threads :
        Adding(t) =>
            /\ pc[t] \in {"upd_check", "upd_last_seen", "upd_status", "upd_battery", "upd_emit"}
                   => /\ Appended(t)
                      /\ Len(anomalies) = frame[t].before[1].anomalies
            /\ pc[t] = "add_anomaly"
                   => /\ Appended(t)
                      /\ DeviceUpdated(t)
                      /\ Len(anomalies) = frame[t].before[1].anomalies
            /\ (AtEndOf(t, "add_sensor_reading") /\ frame[t].error = "none")
                   => /\ Appended(t)
                      /\ IF ReadingOutOfRange(t)
                         THEN /\ Len(anomalies) = frame[t].before[1].anomalies + 1
                              /\ anomalies[Len(anomalies)].anomaly_type = "out_of_range"
                              /\ anomalies[Len(anomalies)].value
                                     = FracOfInt(frame[t].reading[1].value)
                         ELSE Len(anomalies) = frame[t].before[1].anomalies

\* C10 witness: the call is about to return for a registered device that was
\* offline and an out-of-range reading; the anomaly is in the history.
C10_Witness ==
    /\ AtEndOf(GuiThread, "add_sensor_reading")
    /\ ReadingOutOfRange(GuiThread)
    /\ Has(edge_devices, frame[GuiThread].reading[1].device_id)
    /\ \E i \in 1..Len(emitted) :
          /\ emitted[i].signal = "device_status_changed"
          /\ emitted[i].payload.status = "offline"
    /\ Len(anomalies) = frame[GuiThread].before[1].anomalies + 1

\* The readings of the window of index w (in aggregation_windows) of the
\* humidity buffer of location "a", as the last tick found them.
WindowOf(w) == InWindow(HUMIDITY, <<"a">>, aggregation_windows[w][2])

\* The aggregates the history holds for that window.
AggregatesOf(w) == HistoryOf(aggregated_data, HUMIDITY, <<"a">>, aggregation_windows[w][1])

WindowIndices == 1..Len(aggregation_windows)

\* sum(values) / len(values) in float arithmetic, for the values of readings rs
PlainMean(rs) ==
    FlDiv(FlSum([i \in 1..Len(rs) |-> FracOfInt(rs[i].value)]), FracOfInt(Len(rs)))

AllQuality(rs, q) == \A i \in 1..Len(rs) : rs[i].quality = q

\* C11: the aggregate of a non-empty window whose readings all have quality
\* 1 has the plain mean sum(values) / len(values) as its average.
C11_QualityOneMean ==
    \A w \in WindowIndices :
        (WindowOf(w) # <<>> /\ AllQuality(WindowOf(w), QualityOne)) =>
            \A i \in 1..Len(AggregatesOf(w)) :
                AggregatesOf(w)[i].average = PlainMean(WindowOf(w))

\* C11 witness: the 15min window holds three readings of quality 1 with two
\* different values, and its aggregate is in the history.
C11_Witness ==
    /\ Len(WindowOf(3)) = 3
    /\ AllQuality(WindowOf(3), QualityOne)
    /\ WindowOf(3)[1].value # WindowOf(3)[2].value
    /\ AggregatesOf(3) # <<>>

\* C12: for a non-empty window whose qualities add up to 0 the tick produces
\* an aggregate (no division by the zero total) and its average is the
\* unweighted mean sum(values) / len(values).
C12_ZeroQualityFallback ==
    \A w \in WindowIndices :
        (WindowOf(w) # <<>> /\ AllQuality(WindowOf(w), 0)) =>
            /\ \A t \in Threads :
                  AtEndOf(t, "run_periodic_aggregation") =>
                      (frame[t].error = "none" /\ Len(AggregatesOf(w)) = 1)
            /\ \A i \in 1..Len(AggregatesOf(w)) :
                  /\ AggregatesOf(w)[i].average = PlainMean(WindowOf(w))
                  /\ AggregatesOf(w)[i].average.den > 0

\* C12 witness: the tick ends with an aggregate for a 1min window of two
\* readings of quality 0 and different values.
C12_Witness ==
    /\ AtEndOf(GuiThread, "run_periodic_aggregation")
    /\ Len(WindowOf(1)) = 2
    /\ AllQuality(WindowOf(1), 0)
    /\ WindowOf(1)[1].value # WindowOf(1)[2].value
    /\ Len(AggregatesOf(1)) = 1

\* The parts of C13 that float rounding does not touch, for an aggregate agg
\* of a window whose only reading is r.
SingleReadingShape(agg, r) ==
    /\ agg.std_dev = Sqrt(FracOfInt(0))
    /\ agg.count = 1
    /\ agg.min = r.value
    /\ agg.max = r.value

\* |x - v| <= n * |v| * 2^(1 - Precision): x is v up to n float roundings.
WithinRounding(x, v, n) ==
    ~FracLess(FracMul(FracOfInt(n), FracAbs(v)),
              FracMul(FracOfInt(2^(Precision - 1)), FracAbs(FracSub(x, v))))

\* C13 as stated: the aggregate of a window with exactly one reading has
\* std_dev 0, count 1 and min = max = average = the reading's value, whatever
\* the reading's quality.
C13_SingleReadingExact ==
    \A w \in WindowIndices :
        Len(WindowOf(w)) = 1 =>
            \A i \in 1..Len(AggregatesOf(w)) :
                /\ SingleReadingShape(AggregatesOf(w)[i], WindowOf(w)[1])
                /\ AggregatesOf(w)[i].average = FracOfInt(WindowOf(w)[1].value)

\* C13 amended: the aggregate of a window with exactly one reading has
\* std_dev 0, count 1 and min = max = the reading's value; its average is the
\* value when the quality is 0 or 1, and for another quality it is the value
\* up to the rounding of (value * quality) / quality.
C13_SingleReading ==
    \A w \in WindowIndices :
        Len(WindowOf(w)) = 1 =>
            \A i \in 1..Len(AggregatesOf(w)) :
                /\ SingleReadingShape(AggregatesOf(w)[i], WindowOf(w)[1])
                /\ WindowOf(w)[1].quality \in {0, QualityOne} =>
                       AggregatesOf(w)[i].average = FracOfInt(WindowOf(w)[1].value)
                /\ WithinRounding(AggregatesOf(w)[i].average,
                                  FracOfInt(WindowOf(w)[1].value), 2)

\* C13 witness: the 1min window holds one reading of a quality between 0 and
\* 1 beside an older reading of the buffer, and its aggregate, whose average
\* is not the value, is in the history.
C13_Witness ==
    /\ Len(WindowOf(1)) = 1
    /\ Len(Get(raw_data_buffer, BufferKey(HUMIDITY, <<"a">>))) > 1
    /\ WindowOf(1)[1].quality \notin {0, QualityOne}
    /\ AggregatesOf(1) # <<>>
    /\ AggregatesOf(1)[1].average # FracOfInt(WindowOf(1)[1].value)

\* The readings rs all have the value of the first and quality 1.
EqualReadings(rs) ==
    /\ rs # <<>>
    /\ AllQuality(rs, QualityOne)
    /\ \A i \in 1..Len(rs) : rs[i].value = rs[1].value

\* The parts of C14 that float rounding does not touch.
EqualReadingsShape(agg, rs) ==
    /\ agg.min = rs[1].value
    /\ agg.max = rs[1].value
    /\ agg.count = Len(rs)

\* v, 2v, ..., kv are floats: adding v up k times rounds nowhere.
ExactSums(v, k) == \A j \in 1..k : Fl(FracOfInt(j * v)) = FracOfInt(j * v)

\* C14 as stated: the aggregate of a window of k >= 1 readings of one value v
\* and quality 1 has average = min = max = v, count = k and std_dev = 0.
C14_EqualReadingsExact ==
    \A w \in WindowIndices :
        EqualReadings(WindowOf(w)) =>
            \A i \in 1..Len(AggregatesOf(w)) :
                /\ EqualReadingsShape(AggregatesOf(w)[i], WindowOf(w))
                /\ AggregatesOf(w)[i].average = FracOfInt(WindowOf(w)[1].value)
                /\ AggregatesOf(w)[i].std_dev = Sqrt(FracOfInt(0))

\* C14 amended: the aggregate of a window of k >= 1 readings of one value v
\* and quality 1 has min = max = v and count = k; average = v and std_dev = 0
\* when the sums v, 2v, ..., kv are floats, and otherwise the average is v
\* and std_dev is 0 up to the k roundings of the sum and the division.
C14_EqualReadings ==
    \A w \in WindowIndices :
        EqualReadings(WindowOf(w)) =>
            \A i \in 1..Len(AggregatesOf(w)) :
                LET agg == AggregatesOf(w)[i]
                    v == FracOfInt(WindowOf(w)[1].value)
                    k == Len(WindowOf(w))
                IN  /\ EqualReadingsShape(agg, WindowOf(w))
                    /\ ExactSums(WindowOf(w)[1].value, k) =>
                           (agg.average = v /\ agg.std_dev = Sqrt(FracOfInt(0)))
                    /\ WithinRounding(agg.average, v, k)
                    /\ ~SqrtGreater(agg.std_dev,
                                    FracDiv(FracMul(FracOfInt(2 * k), FracAbs(v)),
                                            FracOfInt(2^(Precision - 1))))

\* C14 witness: the 15min window holds three readings of one value and
\* quality 1 whose sums are floats, and its aggregate is in the history.
C14_Witness ==
    /\ EqualReadings(WindowOf(3))
    /\ Len(WindowOf(3)) = 3
    /\ ExactSums(WindowOf(3)[1].value, 3)
    /\ AggregatesOf(3) # <<>>

\* The places in the log of emitted signals of the aggregate of window w
\* (humidity at "a").
AggregateEmissions(w) ==
    {e \in 1..Len(emitted) :
        /\ emitted[e].signal = "new_aggregated_data"
        /\ emitted[e].payload.sensor_type = HUMIDITY
        /\ emitted[e].payload.location = <<"a">>
        /\ emitted[e].payload.timeframe = aggregation_windows[w][1]}

\* The places in the log of the anomalies emitted for that aggregate: the
\* anomaly signals that follow it before anything else is emitted.
AnomaliesEmittedFor(w) ==
    {j \in 1..Len(emitted) :
        /\ emitted[j].signal = "anomaly_detected"
        /\ \E e \in AggregateEmissions(w) :
              e < j /\ \A m \in (e + 1)..j : emitted[m].signal = "anomaly_detected"}

EmittedOfType(w, type) ==
    {j \in AnomaliesEmittedFor(w) : emitted[j].payload.anomaly_type = type}

\* The averages of the last 5 aggregates of list go strictly up (down).
LastFiveIncrease(list) ==
    \A i \in (Len(list) - 4)..(Len(list) - 1) :
        FracLess(list[i].average, list[i + 1].average)

LastFiveDecrease(list) ==
    \A i \in (Len(list) - 4)..(Len(list) - 1) :
        FracLess(list[i + 1].average, list[i].average)

\* C15: at the end of a tick, for every window whose aggregate the tick
\* appended: one sustained_trend anomaly of severity info was emitted for it
\* when the history of the key then holds at least 5 aggregates and the last
\* 5 averages are strictly increasing or strictly decreasing, with the
\* direction "increasing" when the last average exceeds the first of the 5
\* and "decreasing" otherwise; in every other case none was emitted.
C15_SustainedTrend ==
    AtEndOf(GuiThread, "run_periodic_aggregation") =>
        \A w \in WindowIndices :
            LET list == AggregatesOf(w)
                trends == EmittedOfType(w, "sustained_trend")
            IN  IF /\ WindowOf(w) # <<>>
                   /\ Len(list) >= 5
                   /\ (LastFiveIncrease(list) \/ LastFiveDecrease(list))
                THEN /\ Cardinality(trends) = 1
                     /\ \A j \in trends :
                           /\ emitted[j].payload.severity = "info"
                           /\ emitted[j].payload.message =
                                  <<"Sustained",
                                    IF FracLess(list[Len(list) - 4].average,
                                                list[Len(list)].average)
                                    THEN "increasing" ELSE "decreasing",
                                    "trend in", HUMIDITY>>
                           /\ \E i \in 1..Len(anomalies) :
                                 ToDict(anomalies[i]) = emitted[j].payload
                ELSE trends = {}

\* C15 witness: the tick ends having appended the fifth aggregate of the 1min
\* window, whose averages go strictly up, and the trend was emitted, while no
\* rapid change was.
C15_Witness ==
    /\ AtEndOf(GuiThread, "run_periodic_aggregation")
    /\ Len(AggregatesOf(1)) = 5
    /\ LastFiveIncrease(AggregatesOf(1))
    /\ EmittedOfType(1, "sustained_trend") # {}
    /\ EmittedOfType(1, "rapid_change") = {}

\* The seconds between the last two aggregates of list.
SecondsElapsed(list) == list[Len(list)].timestamp - list[Len(list) - 1].timestamp

\* |avg_now - avg_prev| / minutes_elapsed > 5.0 for the last two aggregates
\* of list, SecondsElapsed(list) > 0: values are in tenths and a minute has
\* 60 seconds, so |avg_now - avg_prev| * 60 > 50 * seconds.
RateExceeded(list) ==
    FracLess(FracOfInt(rate_of_change * SecondsElapsed(list)),
             FracMul(FracOfInt(60),
                     FracAbs(FracSub(list[Len(list)].average, list[Len(list) - 1].average))))

\* C16: at the end of a tick, for every window whose aggregate the tick
\* appended: one rapid_change anomaly of severity warning was emitted for it
\* when the key held an aggregate before, time has passed since that
\* aggregate and |avg_now - avg_prev| / minutes_elapsed > 5.0, where avg_prev
\* is the average of the aggregate appended just before; none was emitted
\* otherwise, so none for the first aggregate of a key or for no time passed.
C16_RapidChange ==
    AtEndOf(GuiThread, "run_periodic_aggregation") =>
        \A w \in WindowIndices :
            LET list == AggregatesOf(w)
                rapid == EmittedOfType(w, "rapid_change")
            IN  IF /\ WindowOf(w) # <<>>
                   /\ Len(list) >= 2
                   /\ SecondsElapsed(list) > 0
                   /\ RateExceeded(list)
                THEN /\ Cardinality(rapid) = 1
                     /\ \A j \in rapid :
                           /\ emitted[j].payload.severity = "warning"
                           /\ \E i \in 1..Len(anomalies) :
                                 ToDict(anomalies[i]) = emitted[j].payload
                ELSE rapid = {}

\* C16 witness: the tick ends with a rapid change emitted for the 1min
\* window and none for the 5min window, whose average moved less.
C16_Witness ==
    /\ AtEndOf(GuiThread, "run_periodic_aggregation")
    /\ Len(AggregatesOf(1)) >= 2
    /\ SecondsElapsed(AggregatesOf(1)) > 0
    /\ EmittedOfType(1, "rapid_change") # {}
    /\ Len(AggregatesOf(2)) >= 2
    /\ AggregatesOf(2)[Len(AggregatesOf(2))].average
           # AggregatesOf(2)[Len(AggregatesOf(2)) - 1].average
    /\ EmittedOfType(2, "rapid_change") = {}

\* std_dev > average * 0.3 in exact arithmetic: the average is negative, or
\* variance > (average * 3 / 10)^2.
StdDevExceeds(agg) ==
    \/ FracLess(agg.average, FracOfInt(0))
    \/ FracLess(FracMul(FracMul(agg.average, agg.average), Frac(9, 100)), agg.std_dev.sqrt_of)

\* C17: at the end of a tick, for every window whose aggregate the tick
\* appended: one high_variance anomaly of severity warning was emitted for it
\* when std_dev > average * 0.3 and none otherwise, and every anomaly emitted
\* for the aggregate, of whatever type, is in the anomaly history and carries
\* the average of the aggregate as its value and the expected range of the
\* sensor type.
C17_HighVariance ==
    AtEndOf(GuiThread, "run_periodic_aggregation") =>
        \A w \in WindowIndices :
            LET list == AggregatesOf(w)
                high == EmittedOfType(w, "high_variance")
            IN  /\ IF WindowOf(w) # <<>> /\ StdDevExceeds(list[Len(list)])
                   THEN /\ Cardinality(high) = 1
                        /\ \A j \in high : emitted[j].payload.severity = "warning"
                   ELSE high = {}
                /\ \A j \in AnomaliesEmittedFor(w) :
                      /\ WindowOf(w) # <<>>
                      /\ emitted[j].payload.value = list[Len(list)].average
                      /\ emitted[j].payload.expected_range = Get(expected_ranges, HUMIDITY)
                      /\ emitted[j].payload.sensor_type = HUMIDITY
                      /\ \E i \in 1..Len(anomalies) :
                            ToDict(anomalies[i]) = emitted[j].payload

\* C17 witness: the tick ends with a high variance and a rapid change emitted
\* for the 5min window, and no high variance for the 1min window.
C17_Witness ==
    /\ AtEndOf(GuiThread, "run_periodic_aggregation")
    /\ EmittedOfType(2, "high_variance") # {}
    /\ EmittedOfType(2, "rapid_change") # {}
    /\ AggregatesOf(1) # <<>>
    /\ EmittedOfType(1, "high_variance") = {}

\* Thread t takes the step that is the body of cleanup_old_data.
Cleaning(t) == pc[t] = "cleanup_body" /\ pc'[t] = "release"

\* The ids of the anomalies of a list; uuid4 gives every anomaly its own.
AnomalyIds(list) == {list[i].anomaly_id : i \in 1..Len(list)}

\* C18: a cleanup that finds more than 100 anomalies leaves exactly 100 of
\* them, each once, and every one it leaves has a timestamp >= that of every
\* one it drops; a cleanup that finds at most 100 leaves the history as it
\* is; so every cleanup leaves at most 100.
C18_AnomalyRetention ==
    [][\A t \in Threads :
          Cleaning(t) =>
              /\ Len(anomalies') <= MaxAnomalies
              /\ Len(anomalies) <= MaxAnomalies => anomalies' = anomalies
              /\ Len(anomalies) > MaxAnomalies =>
                     /\ Len(anomalies') = MaxAnomalies
                     /\ Cardinality(AnomalyIds(anomalies')) = MaxAnomalies
                     /\ SeqRange(anomalies') \subseteq SeqRange(anomalies)
                     /\ \A i \in 1..Len(anomalies) :
                           anomalies[i].anomaly_id \notin AnomalyIds(anomalies') =>
                               \A j \in 1..Len(anomalies') :
                                   anomalies'[j].timestamp >= anomalies[i].timestamp]_vars

\* C18 witness: a cleanup has run on a history of 102 anomalies with rising
\* timestamps: 100 are left, the two oldest are gone and the newest is there.
C18_Witness ==
    /\ AtEndOf(GuiThread, "cleanup_old_data")
    /\ uuid_count = MaxAnomalies + 2
    /\ Len(anomalies) = MaxAnomalies
    /\ AnomalyIds(anomalies) = 3..(MaxAnomalies + 2)

\* The records of list that are not older than max_age seconds now.
NotOlderThan(list, max_age) == SelectSeq(list, LAMBDA r : now - r.timestamp <= max_age)

\* The step from dictionary d to dictionary e removed from each list exactly
\* the records older than max_age, kept the others in their order, removed a
\* key exactly when its list became empty, and left no empty list.
RemovedOlderThan(d, e, max_age) ==
    /\ \A i \in 1..Len(d) :
          IF NotOlderThan(d[i][2], max_age) = <<>>
          THEN ~Has(e, d[i][1])
          ELSE Has(e, d[i][1]) /\ Get(e, d[i][1]) = NotOlderThan(d[i][2], max_age)
    /\ \A i \in 1..Len(e) : Has(d, e[i][1]) /\ e[i][2] # <<>>

\* C19: a cleanup removes from the raw buffer exactly the readings older
\* than 2 hours at its instant, keeps every other reading in its order and
\* removes a key exactly when its list became empty; no key is left with an
\* empty list.
C19_RawRetention ==
    [][\A t \in Threads :
          Cleaning(t) => RemovedOlderThan(raw_data_buffer, raw_data_buffer', RawRetention)]_vars

\* C20: a cleanup removes from the aggregate history exactly the aggregates
\* older than 24 hours at its instant, keeps the other aggregates of each key
\* in their order and removes the keys whose lists became empty.
C20_AggregateRetention ==
    [][\A t \in Threads :
          Cleaning(t) => RemovedOlderThan(aggregated_data, aggregated_data', AggRetention)]_vars

\* Thread t takes the step that is the body of get_recent_anomalies.
QueryingAnomalies(t) ==
    pc[t] = "query_body" /\ frame[t].query = "get_recent_anomalies" /\ pc'[t] = "release"

\* The instant an isoformat string stands for
InstantOf(iso) == iso[2]

\* C21: get_recent_anomalies(limit) with limit >= 0 on a history of n
\* anomalies returns min(limit, n) dicts of distinct records of the history,
\* newest first; every record it leaves out is no newer than any it returns;
\* the history is left as it was, whatever its order.
C21_RecentAnomalies ==
    [][\A t \in Threads :
          QueryingAnomalies(t) =>
              LET value == frame'[t].result[1]
                  limit == frame[t].limit
                  n == Len(anomalies)
              IN  /\ anomalies' = anomalies
                  /\ Len(value) = (IF limit < n THEN limit ELSE n)
                  /\ \A i \in 1..Len(value) :
                        \E j \in 1..n : value[i] = ToDict(anomalies[j])
                  /\ Cardinality({value[i].anomaly_id : i \in 1..Len(value)}) = Len(value)
                  /\ \A i \in 1..(Len(value) - 1) :
                        InstantOf(value[i].timestamp) >= InstantOf(value[i + 1].timestamp)
                  /\ \A j \in 1..n :
                        anomalies[j].anomaly_id \notin {value[i].anomaly_id : i \in 1..Len(value)}
                            => \A i \in 1..Len(value) :
                                  InstantOf(value[i].timestamp) >= anomalies[j].timestamp]_vars

\* C21 witness: get_recent_anomalies(20) is about to return 20 anomalies from
\* a history of 101 whose first record is not its newest and whose last is.
C21_Witness ==
    /\ AtEndOf(GuiThread, "get_recent_anomalies")
    /\ frame[GuiThread].limit = 20
    /\ Len(anomalies) = MaxAnomalies + 1
    /\ frame[GuiThread].result # NONE
    /\ Len(frame[GuiThread].result[1]) = 20
    /\ frame[GuiThread].result[1][1] = ToDict(anomalies[Len(anomalies)])
    /\ anomalies[1].timestamp < anomalies[Len(anomalies)].timestamp

\* The <<sensor_type, location>> pairs of the buffered readings
BufferedPairs ==
    UNION {{<<raw_data_buffer[i][2][j].sensor_type, raw_data_buffer[i][2][j].location>> :
               j \in 1..Len(raw_data_buffer[i][2])} : i \in 1..Len(raw_data_buffer)}

\* The mapping m of get_aggregated_metrics has an entry for location loc,
\* sensor type st and window w.
HasMetric(m, loc, st, w) ==
    \E e \in m :
        /\ e[1] = loc
        /\ \E i \in 1..Len(e[2]) :
              /\ e[2][i][1] = st
              /\ \E j \in 1..Len(e[2][i][2]) : e[2][i][2][j][1] = w

\* C22: the mapping get_aggregated_metrics returns has an entry for every
\* selected location and sensor type and every window of 1min, 5min, 15min
\* and 1h that holds at least one buffered reading now, locations without a
\* registered device included.
C22_MetricsComplete ==
    \A t \in Threads :
        (AtEndOf(t, "get_aggregated_metrics") /\ frame[t].result # NONE) =>
            \A p \in BufferedPairs, w \in WindowIndices :
                (/\ frame[t].q_sensor_type \in {NONE, Some(p[1])}
                 /\ frame[t].q_location \in {NONE, Some(p[2])}
                 /\ InWindow(p[1], p[2], aggregation_windows[w][2]) # <<>>)
                    => HasMetric(frame[t].result[1], p[2], p[1], aggregation_windows[w][1])

\* Thread t has stored the status of its update_device_status call in the
\* device's entry and has not emitted device_status_changed for it yet.
StatusWritten(t) == pc[t] \in {"upd_battery", "upd_emit"}

\* The device_status_changed notifications emitted so far for device d with
\* status s.
StatusEmissions(d, s) ==
    {i \in 1..Len(emitted) :
        /\ emitted[i].signal = "device_status_changed"
        /\ emitted[i].payload.device_id = d
        /\ emitted[i].payload.status = s}

\* Thread t emits the notification of its status change in this step.
EmitsStatus(t) == pc[t] = "upd_emit" /\ pc'[t] # "upd_emit"

\* The status thread t notifies is the one the device's entry holds, or a
\* later change of the entry still waits for its own notification. Otherwise
\* a later change of the same device was notified before this one.
StatusInOrder(t) ==
    \/ Get(edge_devices, frame[t].device_id).status = frame[t].status
    \/ \E u \in Threads \ {t} :
          StatusWritten(u) /\ frame[u].device_id = frame[t].device_id

\* C23: every aggregate appended, every anomaly appended and every device
\* registration or status change is followed by an emission of its
\* notification, and the notifications of one key are emitted in the order in
\* which the records were produced. Appending and emitting are one step of
\* the tick, of check_immediate_anomalies and of register_edge_device; for
\* update_device_status the stored status is followed by its notification,
\* and no notification is emitted after that of a later change of the device.
C23_NotifyInOrder ==
    /\ \A t \in Threads, d \in DeviceIds, s \in Statuses, n \in 0..MaxOps :
          (StatusWritten(t) /\ frame[t].device_id = d /\ frame[t].status = s
              /\ Cardinality(StatusEmissions(d, s)) = n)
            ~> (Cardinality(StatusEmissions(d, s)) > n)
    /\ [][\A t \in Threads : EmitsStatus(t) => StatusInOrder(t)]_vars

\* Thread t is inside the `with` block of run_periodic_aggregation.
Ticking(t) == frame[t].op = "run_periodic_aggregation" /\ frame[t].before # NONE

\* The aggregates the tick of thread t has appended so far: the entries of the
\* aggregate history beyond those found when the tick took the lock.
AppendedByTick(t) ==
    LET old == frame[t].before[1].aggregated_data IN
    UNION {{Get(aggregated_data, k)[i] :
                i \in (IF Has(old, k) THEN Len(Get(old, k)) ELSE 0) + 1
                          .. Len(Get(aggregated_data, k))} :
            k \in {aggregated_data[j][1] : j \in 1..Len(aggregated_data)}}

\* C24: all aggregates appended by one tick, for every key and every window,
\* carry the same timestamp, even if the clock advances while the tick runs.
C24_OneNowPerTick ==
    \A t \in Threads :
        Ticking(t) => \A a, b \in AppendedByTick(t) : a.timestamp = b.timestamp

\* The values of readings rs, in tenths.
ValuesOf(rs) == [i \in 1..Len(rs) |-> rs[i].value]

\* C25: the aggregate a tick has just computed for a key and a window covers
\* exactly the buffered readings of the key whose timestamp t satisfies
\* now - window <= t <= now: its count is their number and its min and max
\* are theirs; a reading stamped later than now is not among them.
C25_WindowContents ==
    \A t \in Threads :
        pc[t] = "tick_detect" =>
            LET a == frame[t].agg[1]
                rs == InWindow(a.sensor_type, a.location, Get(aggregation_windows, a.timeframe))
            IN  /\ a.count = Len(rs)
                /\ a.min = MinOf(ValuesOf(rs))
                /\ a.max = MaxOf(ValuesOf(rs))

\* Every aggregate of the aggregate history.
StoredAggregates ==
    UNION {SeqRange(aggregated_data[j][2]) : j \in 1..Len(aggregated_data)}

\* count >= 1, std_dev >= 0 (the root of a variance that is not negative) and
\* 0 <= quality_score <= 1 (in sixteenths)
AggregateInBounds(a) ==
    /\ a.count >= 1
    /\ a.std_dev.sqrt_of.num >= 0
    /\ ~FracLess(a.quality_score, FracOfInt(0))
    /\ ~FracLess(FracOfInt(QualityOne), a.quality_score)

\* C26: every aggregate stored in the aggregate history has count >= 1,
\* std_dev >= 0 and, the qualities of the readings lying in [0, 1], a
\* quality_score in [0, 1]; and a tick stores no aggregate for a key and a
\* window whose window [now - window, now] contains no reading.
C26_AggregateBounds ==
    /\ \A a \in StoredAggregates : AggregateInBounds(a)
    /\ \A t \in Threads :
          pc[t] = "tick_detect" =>
              LET a == frame[t].agg[1] IN
              InWindow(a.sensor_type, a.location, Get(aggregation_windows, a.timeframe)) # <<>>

\* C27: the anomaly history is ordered newest-last in every reachable state:
\* the timestamps of its records are non-decreasing from first to last.
C27_AnomaliesNewestLast ==
    \A i, j \in 1..Len(anomalies) : i < j => anomalies[i].timestamp <= anomalies[j].timestamp

\* The keys of the aggregate history
HistoryKeys(history) == {history[j][1] : j \in 1..Len(history)}

\* The list the history holds for key k, empty when the key is absent.
HistoryOfKey(history, k) == IF Has(history, k) THEN Get(history, k) ELSE <<>>

\* The aggregates of list are in non-decreasing order of time.
OldestFirst(list) ==
    \A i, j \in 1..Len(list) : i < j => list[i].timestamp <= list[j].timestamp

\* new is old with one aggregate appended, or what remains of old with its
\* records in the order they had (all of them, or none, included).
OrderPreserved(old, new) ==
    \/ Len(new) = Len(old) + 1 /\ SubSeq(new, 1, Len(old)) = old
    \/ new = SelectSeq(old, LAMBDA a : a \in SeqRange(new))

\* C28: for every key of the aggregate history the stored aggregates are in
\* arrival order with non-decreasing timestamps, so that the last elements
\* are the most recent ones; every step of a tick or a cleanup leaves each
\* list as it was, appends one aggregate at its end, or removes records
\* without reordering the rest.
C28_ArrivalOrder ==
    [][/\ \A k \in HistoryKeys(aggregated_data') : OldestFirst(Get(aggregated_data', k))
       /\ \A k \in HistoryKeys(aggregated_data) \cup HistoryKeys(aggregated_data') :
             OrderPreserved(HistoryOfKey(aggregated_data, k), HistoryOfKey(aggregated_data', k))]_vars

\* A tick and a cleanup have both returned, and a list holds an aggregate
\* just short of 24 hours old, which the cleanup had to keep, and behind it
\* one the tick appended.
C28_Witness ==
    /\ \E i, j \in 1..Len(returned) :
          /\ returned[i].op = "run_periodic_aggregation"
          /\ returned[j].op = "cleanup_old_data"
    /\ \E k \in HistoryKeys(aggregated_data) :
          LET list == Get(aggregated_data, k) IN
          /\ Len(list) >= 2
          /\ list[1].timestamp < list[Len(list)].timestamp
          /\ list[1].timestamp = CleanupNow - (AggRetention - 1)
          /\ list[Len(list)].timestamp >= CleanupNow

\* The readings buffered under the key of index j of the raw buffer
BufferedUnder(j) == SeqRange(raw_data_buffer[j][2])

\* C29: each buffered reading is stored under exactly one key, and that key
\* identifies its (sensor_type, location) pair uniquely: no key occurs twice,
\* a reading lies in one list only, two readings of one list have the same
\* sensor type and location, and the key of a list is the key of no other
\* pair of a sensor type and a location, with or without '_' in it.
C29_OneKeyPerPair ==
    \A j \in 1..Len(raw_data_buffer) :
        /\ \A i \in 1..Len(raw_data_buffer) :
              (raw_data_buffer[i][1] = raw_data_buffer[j][1]
                  \/ BufferedUnder(i) \cap BufferedUnder(j) # {}) => i = j
        /\ \A r \in BufferedUnder(j) :
              \A st \in SensorType, loc \in KeyLocations :
                  raw_data_buffer[j][1] = BufferKey(st, loc)
                      <=> (st = r.sensor_type /\ loc = r.location)

\* Two sensor types whose values begin alike are buffered at one location
\* whose name holds a '_', each under a key of its own.
C29_Witness ==
    /\ Len(raw_data_buffer) = 2
    /\ \E r \in BufferedUnder(1), q \in BufferedUnder(2) :
          /\ {r.sensor_type, q.sensor_type} = {SOIL_MOISTURE, SOIL_PH}
          /\ r.location = <<"moisture", "a">>
          /\ q.location = <<"moisture", "a">>

\* The place in the log of emitted signals of the last aggregate emitted, 0
\* when there is none.
LastAggregateEmission ==
    LET es == {e \in 1..Len(emitted) : emitted[e].signal = "new_aggregated_data"}
    IN  IF es = {} THEN 0 ELSE CHOOSE e \in es : \A f \in es : f <= e

\* What has been emitted since.
EmittedSince == SubSeq(emitted, LastAggregateEmission + 1, Len(emitted))

\* The last aggregate of the history of the key of the last aggregate emitted
LastAggregateStored ==
    LET p == emitted[LastAggregateEmission].payload
        list == HistoryOf(aggregated_data, p.sensor_type, p.location, p.timeframe)
    IN  list[Len(list)]

\* The place of an anomaly type among the checks of detect_advanced_anomalies
TypeRank(type) ==
    CASE type = "high_variance" -> 1
      [] type = "rapid_change" -> 2
      [] type = "sustained_trend" -> 3
      [] OTHER -> 0

\* The aggregate last emitted stands at the end of its history, and all that
\* was emitted since are anomalies of that aggregate, each one a record at
\* the end of the anomaly history, in the order of the checks.
AnomaliesFollowAggregate ==
    LastAggregateEmission > 0 =>
        LET p == emitted[LastAggregateEmission].payload
            since == EmittedSince
        IN  /\ HistoryOf(aggregated_data, p.sensor_type, p.location, p.timeframe) # <<>>
            /\ ToDict(LastAggregateStored) = p
            /\ Len(since) <= Len(anomalies)
            /\ \A i \in 1..Len(since) :
                  /\ since[i].signal = "anomaly_detected"
                  /\ since[i].payload.sensor_type = p.sensor_type
                  /\ since[i].payload.location = p.location
                  /\ TypeRank(since[i].payload.anomaly_type) > 0
                  /\ ToDict(anomalies[Len(anomalies) - Len(since) + i]) = since[i].payload
            /\ \A i, j \in 1..Len(since) :
                  i < j => TypeRank(since[i].payload.anomaly_type)
                               < TypeRank(since[j].payload.anomaly_type)

\* Every anomaly the checks find for the aggregate last emitted has been
\* appended.
ChecksDone ==
    LastAggregateEmission > 0 =>
        Len(EmittedSince) = Len(AdvancedAnomalyInfos(aggregated_data, LastAggregateStored))

\* C30: within a tick each produced aggregate is appended to its history and
\* its advanced checks run and append their anomalies before the aggregate of
\* the next key and window is computed, and before the tick ends; the
\* anomalies of one aggregate are appended in the order high_variance,
\* rapid_change, sustained_trend.
C30_ChecksBeforeNextPair ==
    [][/\ AnomaliesFollowAggregate'
       /\ (pc[GuiThread] = "tick_window" \/ AtEndOf(GuiThread, "run_periodic_aggregation"))
             => ChecksDone]_vars

\* The tick has ended; an aggregate it produced was followed by the three
\* anomalies of its checks and, after them, by the aggregate of the next
\* window.
C30_Witness ==
    /\ AtEndOf(GuiThread, "run_periodic_aggregation")
    /\ \E e \in 1..Len(emitted) :
          /\ e + 4 <= Len(emitted)
          /\ emitted[e].signal = "new_aggregated_data"
          /\ \A m \in (e + 1)..(e + 3) : emitted[m].signal = "anomaly_detected"
          /\ emitted[e + 4].signal = "new_aggregated_data"

\* The entries of the device table other than that of device_id are the same
\* in devices and in after.
OthersUnchanged(devices, after, device_id) ==
    \A d \in DeviceIds \ {device_id} :
        /\ Has(after, d) <=> Has(devices, d)
        /\ Has(devices, d) => Get(after, d) = Get(devices, d)

\* The device notifications in the log of emitted signals
DeviceNotifications(log) == SelectSeq(log, LAMBDA e : e.signal = "device_status_changed")

\* C31: the step that is the body of register_edge_device(id, ...) leaves the
\* entry of id with status online, battery_level 100 and the given type,
\* location and capabilities, whatever the entry held before; the entries of
\* the other devices are unchanged and exactly one device notification, that
\* of the registration of id, is emitted.
C31_RegisterResets ==
    [][\A t \in Threads :
        (pc[t] = "reg_body" /\ pc'[t] # "reg_body") =>
            LET f == frame[t] IN
            /\ Has(edge_devices', f.device_id)
            /\ LET e == Get(edge_devices', f.device_id) IN
               /\ e.status = "online"
               /\ e.battery_level = 100
               /\ e.type = f.device_type
               /\ e.location = f.location
               /\ e.capabilities = f.capabilities
            /\ OthersUnchanged(edge_devices, edge_devices', f.device_id)
            /\ emitted' = Append(emitted, emitted'[Len(emitted')])
            /\ DeviceNotifications(emitted') =
                   Append(DeviceNotifications(emitted), emitted'[Len(emitted')])
            /\ emitted'[Len(emitted')].payload.device_id = f.device_id
            /\ emitted'[Len(emitted')].payload.status = "registered"]_vars

\* d1 was registered, set offline with battery level 4.0, and registered
\* again: its entry is online with battery level 100.
C31_Witness ==
    /\ Len(RegisteredLocations("d1")) = 2
    /\ \E i \in 1..Len(emitted) :
          /\ emitted[i].payload.device_id = "d1"
          /\ emitted[i].payload.status = "offline"
          /\ emitted[i].payload.battery_level = Some(40)
          /\ emitted[Len(emitted)].payload.status = "registered"
          /\ i < Len(emitted)
    /\ Get(edge_devices, "d1").status = "online"
    /\ Get(edge_devices, "d1").battery_level = 100

\* Thread t is inside update_device_status for a device found in the table.
Updating(t) == pc[t] \in {"upd_last_seen", "upd_status", "upd_battery", "upd_emit"}

\* C32: every step of update_device_status for a registered device, called
\* directly or by add_sensor_reading, leaves the other devices, the device's
\* type, location, capabilities, ip_address and registered_at and the three
\* other tables unchanged; it sets last_seen to the present instant, status
\* to the status given, and battery_level to the level given, which it
\* leaves as it was when none was given; and it emits exactly one
\* notification, as its last step.
C32_UpdateFrame ==
    [][\A t \in Threads :
        (Updating(t) /\ pc'[t] # pc[t]) =>
            LET f == frame[t]
                old == Get(edge_devices, f.device_id)
                new == Get(edge_devices', f.device_id)
            IN  /\ Has(edge_devices', f.device_id)
                /\ OthersUnchanged(edge_devices, edge_devices', f.device_id)
                /\ <<raw_data_buffer, aggregated_data, anomalies>>'
                       = <<raw_data_buffer, aggregated_data, anomalies>>
                /\ new = [old EXCEPT !.last_seen = new.last_seen, !.status = new.status,
                                     !.battery_level = new.battery_level]
                /\ new.last_seen = IF pc[t] = "upd_last_seen" THEN now ELSE old.last_seen
                /\ new.status = IF pc[t] = "upd_status" THEN f.status ELSE old.status
                /\ new.battery_level =
                       IF pc[t] = "upd_battery" /\ f.battery_level # NONE
                       THEN f.battery_level[1] ELSE old.battery_level
                /\ IF pc[t] = "upd_emit"
                   THEN /\ emitted' = Append(emitted, emitted'[Len(emitted')])
                        /\ emitted'[Len(emitted')].signal = "device_status_changed"
                        /\ emitted'[Len(emitted')].payload.device_id = f.device_id
                        /\ emitted'[Len(emitted')].payload.status = f.status
                        /\ ~Updating(t)'
                   ELSE emitted' = emitted /\ Updating(t)']_vars

\* d1 was set to battery level 4.0 and then updated without a battery level:
\* the update has been notified and the entry still holds 4.0.
C32_Witness ==
    /\ Len(emitted) >= 2
    /\ emitted[Len(emitted)].payload.device_id = "d1"
    /\ emitted[Len(emitted)].payload.status = "offline"
    /\ emitted[Len(emitted)].payload.battery_level = NONE
    /\ Has(edge_devices, "d1")
    /\ Get(edge_devices, "d1").status = "offline"
    /\ Get(edge_devices, "d1").battery_level = 40

\* The device of the reading thread t submits is not in the device table.
DeviceUnknown(t) == ~Has(edge_devices, frame[t].reading[1].device_id)

\* The anomaly history holds what the immediate check of the reading of t
\* adds to the history found at the start of the call.
ImmediateCheckDone(t) ==
    IF ReadingOutOfRange(t)
    THEN /\ Len(anomalies) = frame[t].before[1].anomalies + 1
         /\ anomalies[Len(anomalies)].anomaly_type = "out_of_range"
         /\ anomalies[Len(anomalies)].value = FracOfInt(frame[t].reading[1].value)
    ELSE Len(anomalies) = frame[t].before[1].anomalies

\* C33: no step of add_sensor_reading for a reading whose device is not
\* registered changes the device table or emits a device notification, and
\* when the call is about to return the reading is the last of the list of
\* its key and the immediate anomaly check has run.
C33_UnknownDeviceReading ==
    [][\A t \in Threads :
        (Adding(t) /\ DeviceUnknown(t) /\ pc'[t] # pc[t]) =>
            /\ edge_devices' = edge_devices
            /\ DeviceNotifications(emitted') = DeviceNotifications(emitted)
            /\ AtEndOf(t, "add_sensor_reading")' =>
                   /\ frame'[t].error = "none"
                   /\ Appended(t)'
                   /\ ImmediateCheckDone(t)']_vars

\* A reading of d2 outside the expected range is about to return: d1 alone
\* is in the device table, the reading is buffered and its anomaly stored.
C33_Witness ==
    /\ AtEndOf(GuiThread, "add_sensor_reading")
    /\ DeviceUnknown(GuiThread)
    /\ Has(edge_devices, "d1")
    /\ Len(edge_devices) = 1
    /\ frame[GuiThread].reading[1].battery_level = Some(40)
    /\ ReadingOutOfRange(GuiThread)
    /\ Appended(GuiThread)
    /\ anomalies # <<>>


\* Thread t runs run_periodic_aggregation and has been given the lock or
\* waits for it.
InTick(t) == frame[t].op = "run_periodic_aggregation" /\ pc[t] # "idle"

\* C34: no step of run_periodic_aggregation changes the raw buffer or the
\* device table, and every aggregate a tick computes counts all buffered
\* readings of its key that lie in its window, whether or not an earlier tick
\* or a smaller window has counted them.
C34_TickKeepsReadings ==
    [][\A t \in Threads :
        InTick(t) =>
            /\ raw_data_buffer' = raw_data_buffer
            /\ edge_devices' = edge_devices
            /\ (pc[t] = "tick_window" /\ pc'[t] = "tick_detect") =>
                   LET a == frame'[t].agg[1] IN
                   a.count = Len(InWindow(a.sensor_type, a.location,
                                          Get(aggregation_windows, a.timeframe)))]_vars

\* A second tick is about to return: the 1min history of the key holds two
\* aggregates of different instants, each counting the one buffered reading,
\* and d1 is still registered.
C34_Witness ==
    /\ AtEndOf(GuiThread, "run_periodic_aggregation")
    /\ Len(HistoryOf(aggregated_data, HUMIDITY, <<"a">>, "1min")) = 2
    /\ LET h == HistoryOf(aggregated_data, HUMIDITY, <<"a">>, "1min") IN
       /\ h[1].count = 1
       /\ h[2].count = 1
       /\ h[1].timestamp < h[2].timestamp
    /\ Len(Get(raw_data_buffer, BufferKey(HUMIDITY, <<"a">>))) = 1
    /\ Has(edge_devices, "d1")


\* Thread t runs one of the three queries.
RunsQuery(t) ==
    /\ frame[t].op \in {"get_aggregated_metrics", "get_device_status", "get_recent_anomalies"}
    /\ pc[t] # "idle"

\* C35: no step of get_aggregated_metrics, get_device_status or
\* get_recent_anomalies, from the call to the return, changes the raw buffer,
\* the aggregate history, the anomaly history or the device table, creates an
\* anomaly or emits a notification.
C35_QueriesReadOnly ==
    [][\A t \in Threads :
        (RunsQuery(t) \/ RunsQuery(t)') =>
            /\ raw_data_buffer' = raw_data_buffer
            /\ aggregated_data' = aggregated_data
            /\ anomalies' = anomalies
            /\ edge_devices' = edge_devices
            /\ uuid_count' = uuid_count
            /\ emitted' = emitted]_vars

\* get_aggregated_metrics(humidity, a) is about to return the aggregates of
\* all three windows it reports, after a tick that stored aggregates and a
\* reading that raised an anomaly.
C35_Witness ==
    /\ AtEndOf(GuiThread, "get_aggregated_metrics")
    /\ frame[GuiThread].q_sensor_type = Some(HUMIDITY)
    /\ frame[GuiThread].result # NONE
    /\ \E m \in frame[GuiThread].result[1] :
           /\ m[1] = <<"a">>
           /\ Len(m[2]) = 1
           /\ Len(m[2][1][2]) = Len(MetricsWindows)
    /\ aggregated_data # <<>>
    /\ anomalies # <<>>
    /\ Has(edge_devices, "d1")


\* Aggregates a and b are of one (sensor_type, location) key, a of the
\* smaller window.
SmallerWindow(a, b) ==
    /\ a.sensor_type = b.sensor_type
    /\ a.location = b.location
    /\ Get(aggregation_windows, a.timeframe) < Get(aggregation_windows, b.timeframe)

\* C36 (as claimed): the aggregates one tick appends for one key are nested by
\* window: of two of them the one of the larger window has the count at least,
\* the min at most and the max at least of the other, and when the tick ends
\* every aggregate it appended has one of the same key for every larger window.
C36_WindowsNested ==
    \A t \in Threads :
        Ticking(t) =>
            /\ \A a, b \in AppendedByTick(t) :
                   SmallerWindow(a, b) =>
                       /\ a.count <= b.count
                       /\ b.min <= a.min
                       /\ a.max <= b.max
            /\ (AtEndOf(t, "run_periodic_aggregation") /\ frame[t].error = "none") =>
                   \A a \in AppendedByTick(t) :
                       \A i \in 1..Len(aggregation_windows) :
                           aggregation_windows[i][2] > Get(aggregation_windows, a.timeframe) =>
                               \E b \in AppendedByTick(t) :
                                   /\ SmallerWindow(a, b)
                                   /\ b.timeframe = aggregation_windows[i][1]


\* The instants at which a later tick or query may read the clock, seen from
\* the present one.
LaterInstants == {now + d : d \in {0} \cup RepeatSteps}

\* The readings of `list` that lie in the longest aggregation window at `time`
\* by the filter of aggregate_data.
InSomeWindow(list, time) ==
    SelectSeq(list, LAMBDA r :
        \E i \in 1..Len(aggregation_windows) : time - r.timestamp <= aggregation_windows[i][2])

\* C37: the body of cleanup_old_data removes no reading that lies in an
\* aggregation window at the instant of the cleanup, and at that instant and
\* at every later one aggregate_data, for every key and window, and
\* get_aggregated_metrics, for a sensor type with readings and for one
\* without, compute from the buffer the cleanup leaves what they compute from
\* the buffer it found.
C37_CleanupSparesWindows ==
    [][\A t \in Threads :
        (pc[t] = "cleanup_body" /\ pc'[t] = "release") =>
            /\ \A i \in 1..Len(raw_data_buffer) :
                   LET key == raw_data_buffer[i][1]
                       left == IF Has(raw_data_buffer', key)
                               THEN Get(raw_data_buffer', key) ELSE <<>>
                   IN  InSomeWindow(left, now) = InSomeWindow(raw_data_buffer[i][2], now)
            /\ \A time \in LaterInstants :
                   /\ \A i \in 1..Len(raw_data_buffer), j \in 1..Len(aggregation_windows) :
                          LET parts == Split1(raw_data_buffer[i][1]) IN
                          aggregate_data(raw_data_buffer', parts[1], parts[2],
                                         aggregation_windows[j][1], time)
                              = aggregate_data(raw_data_buffer, parts[1], parts[2],
                                               aggregation_windows[j][1], time)
                   /\ \A st \in {HUMIDITY, TEMPERATURE} :
                          AggregatedMetrics(raw_data_buffer', edge_devices, Some(st), NONE, time)
                              = AggregatedMetrics(raw_data_buffer, edge_devices, Some(st), NONE,
                                                  time)]_vars

\* A cleanup is about to return that found a reading two hours old and one
\* just submitted: it has removed the first and left the second.
C37_Witness ==
    /\ AtEndOf(GuiThread, "cleanup_old_data")
    /\ now = RawRetention
    /\ Has(raw_data_buffer, BufferKey(HUMIDITY, <<"a">>))
    /\ LET readings == Get(raw_data_buffer, BufferKey(HUMIDITY, <<"a">>)) IN
       /\ Len(readings) = 1
       /\ readings[1].timestamp = now


\* The standard deviation of the aggregate is 0.
ZeroStdDev(aggregated) == aggregated.std_dev.sqrt_of.num = 0

\* C38 (as claimed): detect_advanced_anomalies finds no high_variance anomaly
\* for an aggregate whose std_dev is 0, whatever its average.
C38_FlatNeverHighVariance ==
    [][\A t \in Threads :
        (pc[t] = "tick_detect" /\ pc'[t] = "tick_anomaly" /\ ZeroStdDev(frame[t].agg[1])) =>
            \A i \in 1..Len(frame'[t].pending) :
                frame'[t].pending[i].type # "high_variance"]_vars

\* The same for the aggregates whose average is not negative.
C38_FlatNonNegative ==
    [][\A t \in Threads :
        (/\ pc[t] = "tick_detect" /\ pc'[t] = "tick_anomaly"
         /\ ZeroStdDev(frame[t].agg[1])
         /\ frame[t].agg[1].average.num >= 0) =>
            \A i \in 1..Len(frame'[t].pending) :
                frame'[t].pending[i].type # "high_variance"]_vars


\* The positions in the log of settlements that settle delivery `tag`.
SettlesOf(tag) == {i \in 1..Len(settled) : settled[i].delivery_tag = tag}

\* The bodies of the acknowledged deliveries, in the order of the
\* acknowledgements.
AckedBodies ==
    LET acks == SelectSeq(settled, LAMBDA s : s.method = "basic_ack")
    IN  [k \in 1..Len(acks) |-> fetched[acks[k].delivery_tag].body]

\* The payloads of the response_received emissions, in order.
ResponsesEmitted ==
    LET log == SelectSeq(emitted, LAMBDA e : e.signal = "response_received")
    IN  [k \in 1..Len(log) |-> log[k].payload]

\* The settlements and emissions are those of deliveries settled once each,
\* acknowledged exactly when their body satisfies Accepted: every fetched
\* message is settled at most once, and settled when the call is over and the
\* connection up; a settlement is basic_ack if the body is accepted and
\* otherwise basic_nack with requeue=False; the responses emitted are the
\* values of the acknowledged bodies, each after its acknowledgement, the
\* last one outstanding only while the call stands at the emit.
SettledOnceBy(Accepted(_)) ==
    /\ \A i \in 1..Len(fetched) :
           /\ fetched[i].delivery_tag = i
           /\ Cardinality(SettlesOf(i)) <= 1
           /\ (worker_pc = "idle" /\ link) => SettlesOf(i) # {}
    /\ \A i \in 1..Len(settled) :
           /\ settled[i].delivery_tag \in 1..Len(fetched)
           /\ IF Accepted(fetched[settled[i].delivery_tag].body)
              THEN settled[i].method = "basic_ack"
              ELSE settled[i].method = "basic_nack" /\ ~settled[i].requeue
    /\ Len(ResponsesEmitted) = Len(AckedBodies) - (IF worker_pc = "emit" THEN 1 ELSE 0)
    /\ \A k \in 1..Len(ResponsesEmitted) :
           ResponsesEmitted[k] = json_loads(AckedBodies[k]).value

\* json.loads(body.decode()) returns a value.
Parses(body) == json_loads(body).raised = "none"

\* json.loads(body.decode()) returns a dict.
ParsesToObject(body) == Parses(body) /\ json_loads(body).type = "dict"

\* C39 (as claimed): every message fetched from command_responses is settled
\* exactly once, acknowledged and then emitted as response_received when its
\* body parses and otherwise negatively acknowledged without requeue and not
\* emitted, and none is left unsettled while the connection is up.
C39_SettledAsParsed == SettledOnceBy(Parses)

\* C39 (amended): the same with the messages acknowledged and emitted being
\* those whose body parses to a JSON object; a body that parses to another
\* JSON value is negatively acknowledged like one that does not parse.
C39_SettledAsObject == SettledOnceBy(ParsesToObject)

\* Two messages were fetched over a connection that is still up, the array
\* first and the response object second: the first was negatively
\* acknowledged, the second acknowledged and emitted.
C39_Witness ==
    /\ worker_pc = "idle"
    /\ link
    /\ Len(fetched) = 2
    /\ fetched[1].body = ArrayBody
    /\ fetched[2].body = ResponseBody
    /\ Len(settled) = 2
    /\ settled[1].method = "basic_nack"
    /\ settled[2].method = "basic_ack"
    /\ Len(ResponsesEmitted) = 1
    /\ Get(ResponsesEmitted[1], "commandId") = "c1"

====
